---- MODULE Spec2Model ----
(***************************************************************************)
(* Wake-on-LAN game server proxy: the ProxyManager state machine together  *)
(* with the tasks that drive it (start/shutdown, the ServerMonitor loop,   *)
(* the per-connection Minecraft handlers, the Satisfactory traffic         *)
(* callbacks, _wake_server with its retry sleeps and the boot-wait tasks   *)
(* spawned by it).                                                         *)
(*                                                                         *)
(* The program is a single asyncio event loop.  One action of this module  *)
(* is one run of one task from the point where it is resumed to the next   *)
(* point where it really suspends (a socket read, a sleep, a subprocess    *)
(* wait, a TCP probe).  Code between two suspension points is atomic, and  *)
(* code separated by a suspension point is not.                            *)
(*                                                                         *)
(* The environment is the clients (a bounded number of arrivals), the      *)
(* real host (it comes up and goes down a bounded number of times), the    *)
(* outcome of each round of the Wake-on-LAN fan-out, the outcome of each   *)
(* bind/release command, and the shutdown signal.                          *)
(*                                                                         *)
(* The WoLSender is also followed on its own (WolSpec, FrameSpec): the     *)
(* magic packet of every MAC, the sendto calls of one fan-out round under  *)
(* every set of failing sends, and the retry loop for every max_retries.   *)
(*                                                                         *)
(* So are the PacketBuffer codec (BufferSpec), the status exchange with    *)
(* its ping (ProbeSpec), the IPAddressManager (IpmSpec), one forwarded     *)
(* connection (ForwardSpec) and the SatisfactoryProtocol of every UDP      *)
(* port with its clock (SatSpec).                                          *)
(*                                                                         *)
(* And the first frame of a Minecraft connection (HandshakeSpec), the      *)
(* health record of the ServerMonitor (HealthSpec), read_varint on raw     *)
(* bytes (RawSpec), and the forwarded connection under the scheduling of   *)
(* the event loop (ForwardLiveSpec).                                       *)
(***************************************************************************)
EXTENDS Integers, Sequences, FiniteSets, TLC

(* ------------------------------------------------------------------ *)
(* Bounds of the model                                                 *)
(* ------------------------------------------------------------------ *)

\* Number of client arrivals (Minecraft connections plus new Satisfactory
\* sources) over a run.
MaxConns == 2

\* The same, for the specifications that follow three wake attempts.
WideConns == 3

\* Number of times the real host comes up or goes down over a run.
MaxFlips == 2

\* The same, for the specifications that follow three wake attempts.
WideFlips == 3

\* Number of failed probes after which wait_for_server_online sees
\* elapsed >= max_wait_seconds (boot_wait_seconds / check_interval, scaled).
BootPolls == 2

\* Number of bind/release commands the environment lets fail over a run.
MaxCmdFailures == 1

\* Largest max_retries handed to wake_server_with_retry when the retry loop
\* is followed on its own.
MaxRetriesArg == 3

\* Number of times _create_magic_packet is called on one WoLSender when the
\* packet is followed on its own.
MaxCalls == 2

\* Number of values written to one PacketBuffer when the buffer is followed
\* on its own.
MaxItems == 2

\* The reads made on a buffer of bytes that nobody encoded.
MaxReads == 3

\* Number of bind/release calls on one IPAddressManager, and number of
\* times somebody else adds or removes the address, when the manager is
\* followed on its own.
MaxIpCalls == 3
MaxOutside == 1

\* The chunks one forward_data task moves, when a forwarded connection is
\* followed on its own.
MaxChunks == 2

\* The datagrams that arrive and the times the clock is moved, when the UDP
\* listeners are followed on their own.
MaxDatagrams == 3
MaxTicks == 2

\* The probes made, and the tasks that are inside update_server_state at
\* the same time (the monitoring loop and the boot-wait tasks), when the
\* health record is followed on its own.
MaxProbes == 6
ProbeCallers == 2

(* ------------------------------------------------------------------ *)
(* Program constants                                                   *)
(* ------------------------------------------------------------------ *)

\* max_retries passed to wake_server_with_retry by _wake_server.
MaxRetries == 3

\* Handshake next_state values.
NextStatus == 1
NextLogin == 2

\* Length of mac_bytes: _parse_mac_address accepts twelve hex digits.
MacLen == 6

\* The magic packet: the number of 0xFF bytes of the header and the number
\* of copies of the MAC that follow.
HeaderLen == 6
MacRepeats == 16

\* The limited broadcast address, always among the destinations.
GlobalBroadcast == "255.255.255.255"

\* wol_ports, in the order of the list.
WolPorts == <<9, 7>>

\* Byte values the MAC addresses of the model are made of, and the MAC
\* addresses.
MacBytes == {0, 171, 255}
MACs == [1..MacLen -> MacBytes]
SampleMac == <<0, 171, 255, 0, 171, 255>>

\* target_ip values: a host address, the limited broadcast address, and an
\* empty string.
TargetIps == {"192.168.1.100", GlobalBroadcast, ""}

ProxyState == {"offline", "waking", "starting", "proxying", "stopping"}
ServerState == {"offline", "online"}

\* A client task is [pc, is_starting, round]: reading the handshake
\* ("mc_read", with is_starting as computed on accept), in the retry sleep
\* after failed round number round ("wake_sleep"), or waiting for the bind
\* command of the transition to OFFLINE ("wake_bind").
ClientTasks ==
    {[pc |-> "mc_read", is_starting |-> b, round |-> 0] : b \in BOOLEAN}
    \cup {[pc |-> "wake_sleep", is_starting |-> FALSE, round |-> r] : r \in 1..(MaxRetries - 1)}
    \cup {[pc |-> "wake_bind", is_starting |-> FALSE, round |-> 0]}

\* A boot-wait task is [pc, polls]: polling ("poll", after polls failed
\* probes), or waiting for the release ("rel") or bind ("bind") command of
\* its transition.
BootWaitTasks ==
    {[pc |-> "poll", polls |-> n] : n \in 0..(BootPolls - 1)}
    \cup {[pc |-> "rel", polls |-> 0], [pc |-> "bind", polls |-> 0]}

VARIABLES
    current_state,      \* ProxyManager.current_state
    ip_bound,           \* IPAddressManager.ip_bound (the flag)
    forwarding_active,  \* SatisfactoryHandler.forwarding_active
    is_running,         \* ProxyManager.is_running
    stats,              \* ProxyManager.stats (the counters)
    server_state,       \* ServerMonitor.current_state
    mon,                \* the monitor task: [pc, last_state]
    main_pc,            \* the main task: start(), run_forever(), shutdown()
    conn,               \* pending client tasks: how many are in each task state
    bw,                 \* pending boot-wait tasks: how many are in each task state
    hostUp,             \* environment: the real host answers the TCP probe
    cmd_failures,       \* environment: bind/release commands failed so far
    arrivals,           \* environment: client arrivals still to come
    flips,              \* environment: host changes still to come
    ev,                 \* what the last step put on the wire: [sent, frames]
                        \* (sent "splice": a TCP connection to the host is opened;
                        \* "relay": a datagram is sent on to the host;
                        \* "announce": a gratuitous ARP is sent)
    wol,                \* the WoLSender and the call running on it
    buffer,             \* a PacketBuffer and the values written to and read from it
    probe,              \* a status exchange of the MinecraftHandler
    ipm,                \* an IPAddressManager, its interface and the calls made on it
    fwd,                \* a connection in _forward_minecraft_connection, followed on its own
    sat,                \* the SatisfactoryProtocol of every port, followed on its own
    hs,                 \* a connection in handle_client_connection, followed on its own
    health              \* the ServerMonitor's health record, followed on its own

\* The variables of the proxy, and all variables.
pvars == <<current_state, ip_bound, forwarding_active, is_running,
           stats, server_state, mon, main_pc, conn, bw, hostUp, cmd_failures, arrivals, flips, ev>>
vars == <<current_state, ip_bound, forwarding_active, is_running,
          stats, server_state, mon, main_pc, conn, bw, hostUp, cmd_failures, arrivals, flips, ev, wol, buffer, probe, ipm, fwd, sat, hs, health>>

\* The variables of the units followed on their own, and for each unit the
\* variables it leaves alone.
unitvars == <<wol, buffer, probe, ipm, fwd, sat, hs, health>>
NotWol == <<pvars, buffer, probe, ipm, fwd, sat, hs, health>>
NotBuffer == <<pvars, wol, probe, ipm, fwd, sat, hs, health>>
NotProbe == <<pvars, wol, buffer, ipm, fwd, sat, hs, health>>
NotIpm == <<pvars, wol, buffer, probe, fwd, sat, hs, health>>
NotFwd == <<pvars, wol, buffer, probe, ipm, sat, hs, health>>
NotSat == <<pvars, wol, buffer, probe, ipm, fwd, hs, health>>
NotHs == <<pvars, wol, buffer, probe, ipm, fwd, sat, health>>
NotHealth == <<pvars, wol, buffer, probe, ipm, fwd, sat, hs>>

Ev(sent, frames) == [sent |-> sent, frames |-> frames]

\* Tasks are kept as bags: the tasks of one kind in one state are
\* interchangeable.
Put(bag, t) == [bag EXCEPT ![t] = @ + 1]
Take(bag, t) == [bag EXCEPT ![t] = @ - 1]

McRead(b) == [pc |-> "mc_read", is_starting |-> b, round |-> 0]
WakeSleep(r) == [pc |-> "wake_sleep", is_starting |-> FALSE, round |-> r]
WakeBind == [pc |-> "wake_bind", is_starting |-> FALSE, round |-> 0]
BwPoll(n) == [pc |-> "poll", polls |-> n]
BwRel == [pc |-> "rel", polls |-> 0]
BwBind == [pc |-> "bind", polls |-> 0]

(* ------------------------------------------------------------------ *)
(* WoLSender: the magic packet, one fan-out round, the retry loop      *)
(* ------------------------------------------------------------------ *)

\* s * n on bytes: n copies of s, none when n is not positive.
RECURSIVE Repeat(_, _)
Repeat(s, n) == IF n <= 0 THEN <<>> ELSE s \o Repeat(s, n - 1)

\* Faulty variant: the MAC is repeated once less.
CreateMagicPacketShort(mac_bytes) ==
    Repeat(<<255>>, HeaderLen) \o Repeat(mac_bytes, MacRepeats - 1)

\* _create_magic_packet().
CreateMagicPacket(mac_bytes) ==
    Repeat(<<255>>, HeaderLen) \o Repeat(mac_bytes, MacRepeats)

\* _get_broadcast_address(ip): the results over the network masks /24, /32
\* and an invalid one (the fallback).
GetBroadcastAddress(ip) ==
    IF ip = "192.168.1.100"
      THEN {"192.168.1.255", "192.168.1.100", GlobalBroadcast}
      ELSE {GlobalBroadcast}

\* The keys of a dict literal in iteration order: a key written twice keeps
\* the place of its first occurrence.
RECURSIVE DictKeys(_, _)
DictKeys(keys, seen) ==
    IF keys = <<>> THEN <<>>
    ELSE IF Head(keys) \in seen
      THEN DictKeys(Tail(keys), seen)
      ELSE <<Head(keys)>> \o DictKeys(Tail(keys), seen \cup {Head(keys)})

\* The destinations dict of send_wol_packet.
Destinations(broadcast_ip, target_ip) ==
    DictKeys(<<broadcast_ip, target_ip, GlobalBroadcast>>, {})

\* Faulty variant: only the first port is tried.
SendToFirstPort(ip_addr) == <<<<ip_addr, WolPorts[1]>>>>

\* The inner loop of send_wol_packet: the sendto calls for one address.
SendTo(ip_addr) == [p \in 1..Len(WolPorts) |-> <<ip_addr, WolPorts[p]>>]

\* The outer loop of send_wol_packet: the sendto calls in the order they are
\* made; an empty address is skipped.
RECURSIVE FanOut(_)
FanOut(dests) ==
    IF dests = <<>> THEN <<>>
    ELSE (IF Head(dests) = "" THEN <<>> ELSE SendTo(Head(dests)))
         \o FanOut(Tail(dests))

\* Every (address, port) pair a round of this sender can send to.
Pairs(w) ==
    LET calls == FanOut(Destinations(w.broadcast_ip, w.target_ip))
    IN {calls[i] : i \in 1..Len(calls)}

\* What the network does to one round: the socket cannot be created or set
\* up, or it can and sendto raises on the pairs of errors.
RoundEnvs(w) ==
    {[sock_ok |-> FALSE, errors |-> {}]}
    \cup {[sock_ok |-> TRUE, errors |-> e] : e \in SUBSET Pairs(w)}

\* send_wol_packet(): sock_ok tells whether the socket could be created and
\* set up, errors is the set of pairs on which sendto raises.  The result
\* keeps the packet, the calls made, and the value returned.
SendWolPacket(w, sock_ok, errors) ==
    LET attempted == IF sock_ok
                       THEN FanOut(Destinations(w.broadcast_ip, w.target_ip))
                       ELSE <<>>
        sent_successfully == \E i \in 1..Len(attempted) : attempted[i] \notin errors
    IN [sock_ok |-> sock_ok, errors |-> errors,
        packet |-> CreateMagicPacket(w.mac_bytes),
        attempted |-> attempted, success |-> sent_successfully]

\* No round has run yet.
NoRound ==
    [sock_ok |-> FALSE, errors |-> {}, packet |-> <<>>, attempted |-> <<>>,
     success |-> FALSE]

\* WoLSender.__init__, with no call running: pc is the position of
\* wake_server_with_retry, attempt its loop variable, round the last fan-out
\* round; rounds, failed and sleeps count the rounds run, the rounds that
\* returned False and the retry sleeps begun; frame is the packet returned by
\* the last of calls calls of _create_magic_packet.
WoLSender(mac_bytes, broadcast_ip, target_ip) ==
    [mac_bytes |-> mac_bytes, broadcast_ip |-> broadcast_ip,
     target_ip |-> target_ip, pc |-> "idle", max_retries |-> 0,
     attempt |-> 0, rounds |-> 0, failed |-> 0, sleeps |-> 0,
     result |-> "none", round |-> NoRound, frame |-> <<>>, calls |-> 0]

\* Faulty variant: the retry sleep follows every failed round.
SleepsAlways(attempt, max_retries) == TRUE

\* The condition of the retry sleep in wake_server_with_retry.
SleepsBetween(attempt, max_retries) == attempt < max_retries - 1

\* One iteration of the loop of wake_server_with_retry, up to the return or
\* the sleep.
RetryRound(w, attempt, sock_ok, errors) ==
    LET r == SendWolPacket(w, sock_ok, errors)
        w1 == [w EXCEPT !.attempt = attempt, !.rounds = @ + 1,
                        !.failed = IF r.success THEN @ ELSE @ + 1,
                        !.round = r]
    IN IF r.success
         THEN [w1 EXCEPT !.pc = "done", !.result = "success"]
         ELSE IF SleepsBetween(attempt, w.max_retries)
           THEN [w1 EXCEPT !.pc = "sleep", !.sleeps = @ + 1]
           ELSE [w1 EXCEPT !.pc = "done", !.result = "failure"]

\* The loop of wake_server_with_retry from iteration attempt on.
RetryFrom(w, attempt, sock_ok, errors) ==
    IF attempt < w.max_retries
      THEN RetryRound(w, attempt, sock_ok, errors)
      ELSE [w EXCEPT !.pc = "done", !.result = "failure"]

\* The state after ProxyManager.__init__, with n client arrivals and f host
\* changes to come.
ProxyInit(n, f) ==
    /\ arrivals = n
    /\ flips = f
    /\ current_state = "offline"
    /\ ip_bound = FALSE
    /\ forwarding_active = FALSE
    /\ is_running = FALSE
    /\ stats = [wake_attempts |-> 0, successful_wakes |-> 0,
                minecraft_connections |-> 0, satisfactory_connections |-> 0,
                state_transitions |-> 0]
    /\ server_state = "offline"
    /\ mon = [pc |-> "none", last_state |-> "offline"]
    /\ main_pc = "new"
    /\ conn = [t \in ClientTasks |-> 0]
    /\ bw = [t \in BootWaitTasks |-> 0]
    /\ hostUp = FALSE
    /\ cmd_failures = 0
    /\ ev = Ev("none", 0)

(* ------------------------------------------------------------------ *)
(* PacketBuffer: VarInt and String                                     *)
(* ------------------------------------------------------------------ *)

\* The values written as VarInt: the ends of the range and both sides of
\* every change of the encoded length.
VarInts ==
    {0, 1, 127, 128, 255, 300, 16383, 16384, 2097151, 2097152,
     268435455, 268435456, 2147483647}

\* A str is the sequence of its code points.  The strings written: empty,
\* one character of each UTF-8 length (A, e acute, the euro sign, an
\* emoji), the four together, and 130 times A (a length of two bytes).
Strings ==
    {<<>>, <<65>>, <<233>>, <<8364>>, <<128512>>, <<65, 233, 8364, 128512>>,
     [i \in 1..130 |-> 65]}

\* PacketBuffer.__init__(data).
PacketBuffer(data) == [data |-> data, pos |-> 0]

\* Faulty variant: the continuation bit is never set.
RECURSIVE VarIntBytesNoFlag(_)
VarIntBytesNoFlag(value) ==
    IF value < 128 THEN <<value>>
    ELSE <<value % 128>> \o VarIntBytesNoFlag(value \div 128)

\* The loop of write_varint: the bytes of a value that is not negative.
RECURSIVE VarIntBytes(_)
VarIntBytes(value) ==
    LET byte == value % 128
        rest == value \div 128
    IN IF rest # 0
         THEN <<byte + 128>> \o VarIntBytes(rest)
         ELSE <<byte>>

\* Faulty variant: the sign of a negative value is dropped.
WriteVarintUnsigned(b, value) ==
    [buf |-> [b EXCEPT !.data = @ \o VarIntBytes(IF value < 0 THEN -value
                                                 ELSE value)],
     err |-> "none"]

\* write_varint(value): the buffer afterwards and the exception raised.
WriteVarint(b, value) ==
    IF value < 0
      THEN [buf |-> b, err |-> "ValueError"]
      ELSE [buf |-> [b EXCEPT !.data = @ \o VarIntBytes(value)], err |-> "none"]

\* Faulty variant: a fifth byte is refused.
VarIntTooLongAtFive(position) == position >= 28

\* The length check of read_varint, on the shift of the next byte.
VarIntTooLong(position) == position >= 32

\* The loop of read_varint from the byte at pos on: the buffer afterwards,
\* the value returned and the exception raised.
RECURSIVE ReadVarintLoop(_, _, _)
ReadVarintLoop(b, value, position) ==
    IF b.pos >= Len(b.data)
      THEN [buf |-> b, value |-> 0, err |-> "ValueError"]
      ELSE LET byte == b.data[b.pos + 1]
               b1 == [b EXCEPT !.pos = @ + 1]
               v1 == value + (byte % 128) * (2 ^ position)
           IN IF byte < 128
                THEN [buf |-> b1, value |-> v1, err |-> "none"]
                ELSE IF VarIntTooLong(position + 7)
                  THEN [buf |-> b1, value |-> 0, err |-> "ValueError"]
                  ELSE ReadVarintLoop(b1, v1, position + 7)

\* read_varint().
ReadVarint(b) == ReadVarintLoop(b, 0, 0)

\* str.encode('utf-8') for one code point.
Utf8Char(cp) ==
    IF cp < 128 THEN <<cp>>
    ELSE IF cp < 2048 THEN <<192 + (cp \div 64), 128 + (cp % 64)>>
    ELSE IF cp < 65536
      THEN <<224 + (cp \div 4096), 128 + ((cp \div 64) % 64), 128 + (cp % 64)>>
      ELSE <<240 + (cp \div 262144), 128 + ((cp \div 4096) % 64),
             128 + ((cp \div 64) % 64), 128 + (cp % 64)>>

\* str.encode('utf-8'): the characters one after the other.
RECURSIVE Utf8Encode(_)
Utf8Encode(str) ==
    IF str = <<>> THEN <<>>
    ELSE IF Len(str) = 1 THEN Utf8Char(str[1])
    ELSE LET half == Len(str) \div 2
         IN Utf8Encode(SubSeq(str, 1, half))
            \o Utf8Encode(SubSeq(str, half + 1, Len(str)))

\* The number of bytes of the character that begins with the byte lead, 0
\* when no character begins with it.
Utf8Width(lead) ==
    IF lead < 128 THEN 1
    ELSE IF lead >= 194 /\ lead <= 223 THEN 2
    ELSE IF lead >= 224 /\ lead <= 239 THEN 3
    ELSE IF lead >= 240 /\ lead <= 244 THEN 4
    ELSE 0

\* The code point of the character held by the bytes c, -1 when they are
\* not the UTF-8 form of a character (a byte that does not continue, an
\* overlong form, a surrogate, a value above 0x10FFFF).
Utf8CodePoint(c) ==
    LET n == Len(c)
        cont == \A i \in 2..n : c[i] >= 128 /\ c[i] <= 191
        cp == IF n = 1 THEN c[1]
              ELSE IF n = 2 THEN (c[1] - 192) * 64 + (c[2] - 128)
              ELSE IF n = 3
                THEN (c[1] - 224) * 4096 + (c[2] - 128) * 64 + (c[3] - 128)
                ELSE (c[1] - 240) * 262144 + (c[2] - 128) * 4096
                     + (c[3] - 128) * 64 + (c[4] - 128)
        least == IF n = 1 THEN 0 ELSE IF n = 2 THEN 128
                 ELSE IF n = 3 THEN 2048 ELSE 65536
    IN IF cont /\ cp >= least /\ cp <= 1114111 /\ ~(cp >= 55296 /\ cp <= 57343)
         THEN cp ELSE -1

\* bytes.decode('utf-8'): the str returned and the exception raised.  Up
\* to eight bytes are decoded character by character; a longer sequence is
\* cut near its middle, in front of a byte that is not a continuation byte
\* (one of four bytes in a row is none in UTF-8), and decodes when both
\* parts do.
RECURSIVE Utf8Decode(_)
Utf8Decode(bytes) ==
    LET failed == [str |-> <<>>, err |-> "UnicodeDecodeError"]
        join(l, r) == IF l.err # "none" \/ r.err # "none" THEN failed
                      ELSE [str |-> l.str \o r.str, err |-> "none"]
    IN IF bytes = <<>> THEN [str |-> <<>>, err |-> "none"]
       ELSE IF Len(bytes) <= 8
         THEN LET n == Utf8Width(bytes[1])
              IN IF n = 0 \/ n > Len(bytes) \/ Utf8CodePoint(SubSeq(bytes, 1, n)) < 0
                   THEN failed
                   ELSE join([str |-> <<Utf8CodePoint(SubSeq(bytes, 1, n))>>,
                              err |-> "none"],
                             Utf8Decode(SubSeq(bytes, n + 1, Len(bytes))))
         ELSE LET half == Len(bytes) \div 2
                  cuts == {m \in half..(half + 3) :
                             bytes[m + 1] < 128 \/ bytes[m + 1] > 191}
              IN IF cuts = {} THEN failed
                 ELSE LET m == CHOOSE c \in cuts : \A d \in cuts : c <= d
                      IN join(Utf8Decode(SubSeq(bytes, 1, m)),
                              Utf8Decode(SubSeq(bytes, m + 1, Len(bytes))))

\* Faulty variant: the length written is the number of characters.
WriteStringCharCount(b, value) ==
    LET encoded == Utf8Encode(value)
        w == WriteVarint(b, Len(value))
    IN [buf |-> [w.buf EXCEPT !.data = @ \o encoded], err |-> "none"]

\* write_string(value).
WriteString(b, value) ==
    LET encoded == Utf8Encode(value)
        w == WriteVarint(b, Len(encoded))
    IN [buf |-> [w.buf EXCEPT !.data = @ \o encoded], err |-> "none"]

\* read_string(): the buffer afterwards, the str returned and the exception
\* raised.
ReadString(b) ==
    LET r == ReadVarint(b)
        length == r.value
        b1 == r.buf
    IN IF r.err # "none"
         THEN [buf |-> b1, value |-> <<>>, err |-> r.err]
         ELSE IF b1.pos + length > Len(b1.data)
           THEN [buf |-> b1, value |-> <<>>, err |-> "ValueError"]
           ELSE LET string_data == SubSeq(b1.data, b1.pos + 1, b1.pos + length)
                    d == Utf8Decode(string_data)
                IN [buf |-> [b1 EXCEPT !.pos = @ + length],
                    value |-> d.str, err |-> d.err]

\* A PacketBuffer together with what has been done with it: written holds,
\* for every value written, its kind, the value and the length of data
\* after the write; got holds, for every read, the value returned, pos
\* after the read and the exception raised.
BufferUnit(data) ==
    [buf |-> PacketBuffer(data), written |-> <<>>, got |-> <<>>]

(* ------------------------------------------------------------------ *)
(* MinecraftHandler: packets and the status exchange                   *)
(* ------------------------------------------------------------------ *)

\* Packet ids: the ping and the pong.
PingId == 1

\* Byte values the ping payloads of the model are made of, and the payloads.
PayloadBytes == {0, 128, 255}
Payloads == [1..8 -> PayloadBytes]

\* create_packet(packet_id, data).
CreatePacket(packet_id, data) ==
    LET buf == WriteVarint(PacketBuffer(<<>>), packet_id).buf.data \o data
    IN WriteVarint(PacketBuffer(<<>>), Len(buf)).buf.data \o buf

\* read_long(): the buffer afterwards, the value returned and the exception
\* raised.  An integer of 64 bits is kept as its four digits in base 65536,
\* the first the most significant.
ReadLong(b) ==
    IF b.pos + 8 > Len(b.data)
      THEN [buf |-> b, value |-> <<>>, err |-> "ValueError"]
      ELSE [buf |-> [b EXCEPT !.pos = @ + 8],
            value |-> [k \in 1..4 |-> b.data[b.pos + 2 * k - 1] * 256
                                      + b.data[b.pos + 2 * k]],
            err |-> "none"]

\* Faulty variant: the payload is packed as a signed long ('>q'), which
\* raises for a value of 2^63 or more.
PackSignedLong(payload) ==
    IF payload[1] >= 32768
      THEN [bytes |-> <<>>, err |-> "struct.error"]
      ELSE [bytes |-> [i \in 1..8 |-> IF i % 2 = 1
                                        THEN payload[(i + 1) \div 2] \div 256
                                        ELSE payload[i \div 2] % 256],
            err |-> "none"]

\* struct.pack('>Q', payload): the bytes and the exception raised.
PackLong(payload) ==
    [bytes |-> [i \in 1..8 |-> IF i % 2 = 1
                                 THEN payload[(i + 1) \div 2] \div 256
                                 ELSE payload[i \div 2] % 256],
     err |-> "none"]

\* create_pong_packet(payload): empty when packing raised.
CreatePongPacket(payload) ==
    LET packed == PackLong(payload)
    IN IF packed.err # "none" THEN <<>>
       ELSE CreatePacket(PingId, packed.bytes)

\* What a read after the status response can return besides a ping: a
\* status request alone, a status request followed by a ping, a packet with
\* another id, a ping cut after seven bytes of payload, and nine bytes that
\* are no VarInt.
OtherReads ==
    {<<1, 0>>,
     <<1, 0, 9, 1, 0, 0, 0, 0, 0, 0, 0, 7>>,
     <<9, 0, 0, 0, 0, 0, 0, 0, 0, 7>>,
     <<9, 1, 0, 0, 0, 0, 0, 0, 7>>,
     <<128, 128, 128, 128, 128, 128, 128, 128, 128>>}

\* The part of _handle_status_request that handles the bytes read after the
\* status response: the pong written (empty for none) and the exception
\* caught and logged.
HandlePingData(ping_data) ==
    IF ~(ping_data # <<>> /\ Len(ping_data) >= 9)
      THEN [pong |-> <<>>, logged |-> "none"]
      ELSE LET len == ReadVarint(PacketBuffer(ping_data))
               id == ReadVarint(len.buf)
               payload == ReadLong(id.buf)
           IN IF len.err # "none" THEN [pong |-> <<>>, logged |-> len.err]
              ELSE IF id.err # "none" THEN [pong |-> <<>>, logged |-> id.err]
              ELSE IF id.value # PingId THEN [pong |-> <<>>, logged |-> "none"]
              ELSE IF payload.err # "none"
                THEN [pong |-> <<>>, logged |-> payload.err]
                ELSE [pong |-> CreatePongPacket(payload.value), logged |-> "none"]

\* A connection whose handshake asked for the status, before
\* _handle_status_request is called: pc is the position of the handler,
\* response the status document written, arrival what the read after it
\* returned ("data", "eof" or "timeout") and ping_data the bytes, pong the
\* bytes written after that, logged the exception caught, raised the
\* exception that left handle_client_connection, closed whether
\* writer.close() was called.
StatusExchange ==
    [pc |-> "idle", response |-> "none", arrival |-> "none", ping_data |-> <<>>,
     pong |-> <<>>, logged |-> "none", raised |-> "none", closed |-> FALSE]

(* ------------------------------------------------------------------ *)
(* IPAddressManager: the ip command and the flag                       *)
(* ------------------------------------------------------------------ *)

\* `ip addr add`: what the command reports when the interface holds the
\* address or not and the command can or cannot change the interface
\* (missing capability, missing device, missing binary).
AddrAdd(assigned, works) ==
    IF ~works THEN "error" ELSE IF assigned THEN "file exists" ELSE "ok"

\* `ip addr del`, likewise.
AddrDel(assigned, works) ==
    IF ~works THEN "error" ELSE IF assigned THEN "ok" ELSE "cannot assign"

\* Faulty variant: only exit status 0 counts.
BindSucceededOnExitZero(out) == out = "ok"

\* bind_ip_address: exit status 0, or "file exists" on stderr.
BindSucceeded(out) == out \in {"ok", "file exists"}

\* release_ip_address: exit status 0, or "cannot assign" on stderr.
ReleaseSucceeded(out) == out \in {"ok", "cannot assign"}

\* bind_ip_address() from call to return, nothing else running: the manager
\* afterwards and the value returned.
BindIpAddress(m) ==
    LET out == AddrAdd(m.assigned, m.works)
    IN [m |-> [m EXCEPT !.assigned = @ \/ (out = "ok"),
                        !.ip_bound = @ \/ BindSucceeded(out)],
        result |-> BindSucceeded(out)]

\* release_ip_address(), likewise.
ReleaseIpAddress(m) ==
    IF ~m.ip_bound
      THEN [m |-> m, result |-> TRUE]
      ELSE LET out == AddrDel(m.assigned, m.works)
           IN [m |-> [m EXCEPT !.assigned = @ /\ (out # "ok"),
                               !.ip_bound = @ /\ ~ReleaseSucceeded(out)],
               result |-> ReleaseSucceeded(out)]

\* IPAddressManager.__init__ on an interface that holds the address or not,
\* with an ip command that works or not: ip_bound is the flag, log holds
\* for every call its name, the interface before it, and the value returned,
\* the flag and the interface after it; outside counts the changes of the
\* interface by somebody else.
IPAddressManager(assigned, works) ==
    [ip_bound |-> FALSE, assigned |-> assigned, works |-> works,
     log |-> <<>>, outside |-> 0]

(* ------------------------------------------------------------------ *)
(* ProxyManager._forward_minecraft_connection                          *)
(* ------------------------------------------------------------------ *)

\* The two forward_data tasks of one forwarded connection.
Directions == {"client->server", "server->client"}

\* A connection handed to _forward_minecraft_connection: pc is the position
\* of the per-connection task, client_writer and server_writer are the two
\* stream writers (server_writer is a name without a value until
\* open_connection has returned), task the two forward_data tasks, moved the
\* chunks each has written, logged the messages, raised the exception that
\* left the per-connection task.
ForwardedConnection ==
    [pc |-> "idle", client_writer |-> "open", server_writer |-> "unbound",
     task |-> [d \in Directions |-> "none"],
     moved |-> [d \in Directions |-> 0],
     logged |-> {}, raised |-> "none"]

\* dest_writer of a forward_data task.
DestWriter(direction) ==
    IF direction = "client->server" THEN "server_writer" ELSE "client_writer"

\* writer.close() and wait_closed(), errors swallowed.
CloseWriter(f, writer) ==
    IF writer = "client_writer" THEN [f EXCEPT !.client_writer = "closed"]
    ELSE [f EXCEPT !.server_writer = "closed"]

\* Faulty variant: a forward_data task that ends leaves dest_writer open.
ForwardDataLeavesOpen(f, direction, outcome) ==
    IF outcome = "data"
    THEN [f EXCEPT !.moved[direction] = @ + 1]
    ELSE [f EXCEPT !.task[direction] = "ended"]

\* One round of the loop of forward_data: the read brings a chunk that is
\* written and drained, or brings nothing (end of stream), or the read or the
\* drain raises; leaving the loop closes dest_writer.
ForwardData(f, direction, outcome) ==
    IF outcome = "data"
    THEN [f EXCEPT !.moved[direction] = @ + 1]
    ELSE LET g == IF outcome = "error"
                  THEN [f EXCEPT !.logged = @ \cup {<<"ended", direction>>}]
                  ELSE f
         IN CloseWriter([g EXCEPT !.task[direction] = "ended"],
                        DestWriter(direction))

\* source_reader of a forward_data task belongs to the connection whose
\* writer is the dest_writer of the other task: once that writer is closed
\* the transport is closed and the reader is fed the end of the stream.
SourceClosed(f, direction) ==
    IF direction = "client->server" THEN f.client_writer = "closed"
    ELSE f.server_writer = "closed"

\* The finally block: the list of the two writers is built first, and
\* building it reads server_writer.
CleanUp(f) ==
    IF f.server_writer = "unbound"
    THEN [f EXCEPT !.pc = "done", !.raised = "UnboundLocalError"]
    ELSE [CloseWriter(CloseWriter(f, "client_writer"), "server_writer")
            EXCEPT !.pc = "done"]

(* ------------------------------------------------------------------ *)
(* SatisfactoryProtocol: the sources tracked on each UDP port          *)
(* ------------------------------------------------------------------ *)

\* SatisfactoryProtocol.connection_timeout, in seconds.
ConnectionTimeout == 300

\* game_port, query_port and beacon_port of the default configuration.
SatPorts == {7777, 15000, 15777}

\* The client_id strings ("address:port") of the sources that send.
Sources == {"10.0.0.5:50000", "10.0.0.6:50001"}

\* The seconds by which time.time() moves between two looks at the model.
TickSeconds == {150, 151}

\* Faulty variant: every datagram is taken for the first of its source.
IsNewAlways(active_connections, client_id) == TRUE

\* client_id not in self.active_connections
IsNewConnection(active_connections, client_id) ==
    client_id \notin DOMAIN active_connections

\* self.active_connections[client_id] = current_time (both branches).
Track(active_connections, client_id, current_time) ==
    [c \in DOMAIN active_connections \cup {client_id} |->
        IF c = client_id THEN current_time ELSE active_connections[c]]

\* _cleanup_old_connections
CleanupOldConnections(active_connections, current_time) ==
    LET cutoff_time == current_time - ConnectionTimeout
        old_connections == {c \in DOMAIN active_connections :
                              active_connections[c] < cutoff_time}
    IN [c \in DOMAIN active_connections \ old_connections |->
          active_connections[c]]

\* datagram_received on the protocol of one port: the membership test is
\* made on the dictionary as the previous datagram left it, then the
\* timestamp is written, then the old entries are removed.
DatagramReceived(active_connections, port, client_id, current_time) ==
    [active_connections |->
        CleanupOldConnections(
            Track(active_connections, client_id, current_time), current_time),
     events |-> IF IsNewConnection(active_connections, client_id)
                THEN <<[port |-> port, client_addr |-> client_id]>>
                ELSE <<>>]

\* The protocols as start_udp_listeners creates them: clock is time.time(),
\* active_connections the dictionary of each port, events the traffic
\* callbacks scheduled so far, stats the two counters of the handler; heard
\* is when each source last sent on each port (-1: never), last the latest
\* datagram with the silence that preceded it (-1: first of its source on
\* the port), ticks the times the clock was moved.
SatisfactoryProtocols ==
    [clock |-> 0,
     active_connections |-> [p \in SatPorts |-> <<>>],
     events |-> <<>>,
     stats |-> [packets_received |-> 0, connections_detected |-> 0],
     heard |-> [p \in SatPorts |-> [c \in Sources |-> -1]],
     last |-> [port |-> 0, client_id |-> "", silence |-> -1],
     ticks |-> 0]

(* ------------------------------------------------------------------ *)
(* MinecraftHandler: the first frame of a connection                   *)
(* ------------------------------------------------------------------ *)

\* read_ushort(): the buffer afterwards, the value and the exception.
ReadUshort(b) ==
    IF b.pos + 2 > Len(b.data)
      THEN [buf |-> b, value |-> 0, err |-> "ValueError"]
      ELSE [buf |-> [b EXCEPT !.pos = @ + 2],
            value |-> b.data[b.pos + 1] * 256 + b.data[b.pos + 2],
            err |-> "none"]

\* packet_id != 0x00 is refused.
IsHandshakeId(packet_id) == packet_id = 0

\* parse_handshake_packet(data): whether a dictionary is returned (None
\* otherwise) and its next_state.  The packet length is read and not used.
ParseHandshakePacket(data) ==
    LET none == [parsed |-> FALSE, next_state |-> 0]
        packet_length == ReadVarint(PacketBuffer(data))
        packet_id == ReadVarint(packet_length.buf)
        protocol_version == ReadVarint(packet_id.buf)
        server_address == ReadString(protocol_version.buf)
        server_port == ReadUshort(server_address.buf)
        next_state == ReadVarint(server_port.buf)
    IN IF packet_length.err # "none" \/ packet_id.err # "none" THEN none
       ELSE IF ~IsHandshakeId(packet_id.value) THEN none
       ELSE IF \/ protocol_version.err # "none"
               \/ server_address.err # "none"
               \/ server_port.err # "none"
               \/ next_state.err # "none" THEN none
       ELSE [parsed |-> TRUE, next_state |-> next_state.value]

\* The first frames that clients send, field by field: the declared length
\* ("exact", or "short": the length of the packet id alone), the packet id,
\* the protocol version (the last one has six bytes), the address (the third
\* is not UTF-8, the fourth is longer than the frame), the port (the second
\* has one byte) and the next state (the last one is missing).
FrameLengths == {"exact", "short"}
FrameIds == {<<0>>, <<1>>}
FrameVersions == {<<0>>, <<253, 5>>, <<128, 128, 128, 128, 128, 1>>}
FrameAddresses == {<<0>>, <<1, 65>>, <<1, 255>>, <<5, 65>>}
FramePorts == {<<99, 221>>, <<99>>}
FrameNextStates == {<<0>>, <<1>>, <<2>>, <<3>>, <<>>}
Frames ==
    [length : FrameLengths, id : FrameIds, version : FrameVersions,
     address : FrameAddresses, port : FramePorts, next : FrameNextStates]

\* The bytes of a frame on the wire.
FrameBytes(f) ==
    LET body == f.id \o f.version \o f.address \o f.port \o f.next
    IN <<IF f.length = "exact" THEN Len(body) ELSE Len(f.id)>> \o body

\* A connection handed to handle_client_connection: state is the ProxyState
\* when it was accepted, arrival what the first read brought, sent what
\* was written to the client, is_login the value returned, closed whether
\* the writer was closed, wake whether _wake_server was called for it.
HandshakeExchange ==
    [pc |-> "idle", state |-> "offline", arrival |-> "none",
     frame |-> <<>>, sent |-> "none", is_login |-> FALSE,
     closed |-> FALSE, wake |-> FALSE]

(* ------------------------------------------------------------------ *)
(* ServerMonitor: the health record                                    *)
(* ------------------------------------------------------------------ *)

\* ServerMonitor.__init__: the state, the two run counters and the
\* statistics; outcomes holds the results of the probes in the order in
\* which update_server_state took them in.
ServerMonitor ==
    [current_state |-> "offline",
     consecutive_failures |-> 0, consecutive_successes |-> 0,
     stats |-> [total_checks |-> 0, successful_checks |-> 0,
                failed_checks |-> 0, state_changes |-> 0],
     outcomes |-> <<>>]

\* Every unit but x as it is constructed, with no call made on it.
UnitsIdle(x) ==
    /\ IF x = "wol" THEN TRUE
       ELSE wol = WoLSender(SampleMac, "192.168.1.255", "192.168.1.100")
    /\ IF x = "buffer" THEN TRUE
       ELSE buffer = BufferUnit(<<>>)
    /\ IF x = "probe" THEN TRUE
       ELSE probe = StatusExchange
    /\ IF x = "ipm" THEN TRUE
       ELSE ipm = IPAddressManager(FALSE, TRUE)
    /\ IF x = "fwd" THEN TRUE
       ELSE fwd = ForwardedConnection
    /\ IF x = "sat" THEN TRUE
       ELSE sat = SatisfactoryProtocols
    /\ IF x = "hs" THEN TRUE
       ELSE hs = HandshakeExchange
    /\ IF x = "health" THEN TRUE
       ELSE health = ServerMonitor

\* The same, with the units of the proxy.
InitWith(n, f) ==
    /\ ProxyInit(n, f)
    /\ UnitsIdle("none")

Init == InitWith(MaxConns, MaxFlips)

(* ------------------------------------------------------------------ *)
(* _transition_to_state and the entry actions                          *)
(* ------------------------------------------------------------------ *)

\* The coordinator fields a transition touches before it suspends.
Core == [cs |-> current_state, fwd |-> forwarding_active,
         tr |-> stats.state_transitions, await |-> "none"]

\* release_ip_address returns at once, without running a command, when the
\* flag says the address is not bound.
ReleaseIsNoop == ~ip_bound

\* The entry action of new_state up to its first suspension: the forwarding
\* flag after it, and the command it is left waiting for.
EnterState(k, new_state) ==
    CASE new_state = "offline"  -> [k EXCEPT !.await = "bind"]
      [] new_state = "waking"   -> [k EXCEPT !.fwd = FALSE]
      [] new_state = "starting" -> [k EXCEPT !.fwd = FALSE]
      [] new_state = "proxying" -> IF ReleaseIsNoop
                                     THEN [k EXCEPT !.fwd = TRUE]
                                     ELSE [k EXCEPT !.await = "release"]
      [] new_state = "stopping" -> k

\* Faulty variant: a transition to the current state is made like any other.
TransitionReenters(k, new_state) ==
    EnterState([k EXCEPT !.cs = new_state, !.tr = @ + 1, !.await = "none"],
               new_state)

\* Faulty variant: a transition takes one off the transition counter.
TransitionCountsDown(k, new_state) ==
    IF new_state = k.cs
      THEN [k EXCEPT !.await = "none"]
      ELSE EnterState([k EXCEPT !.cs = new_state, !.tr = @ - 1,
                                !.await = "none"], new_state)

\* _transition_to_state(new_state), up to the first suspension.
Transition(k, new_state) ==
    IF new_state = k.cs
      THEN [k EXCEPT !.await = "none"]
      ELSE EnterState([k EXCEPT !.cs = new_state, !.tr = @ + 1,
                                !.await = "none"], new_state)

\* Write a core record back, with the other counters taken from st.
Commit(k, st) ==
    /\ current_state' = k.cs
    /\ forwarding_active' = k.fwd
    /\ stats' = [st EXCEPT !.state_transitions = k.tr]

\* The environment may let a command fail only MaxCmdFailures times.
Outcomes == IF cmd_failures < MaxCmdFailures THEN {TRUE, FALSE} ELSE {TRUE}

\* bind_ip_address resumed after its command: the flag is set on success
\* (exit 0 or "file exists") and left alone on failure.
IpBindResult(ok) ==
    /\ ip_bound' = (ok \/ ip_bound)
    /\ cmd_failures' = IF ok THEN cmd_failures ELSE cmd_failures + 1

\* release_ip_address resumed after its command: the flag is cleared on
\* success (exit 0 or "not found") and left alone on failure.
IpReleaseResult(ok) ==
    /\ ip_bound' = (ip_bound /\ ~ok)
    /\ cmd_failures' = IF ok THEN cmd_failures ELSE cmd_failures + 1

\* _enter_offline_state resumed: bind result, then disable_forwarding.
BindDone(ok) ==
    /\ IpBindResult(ok)
    /\ forwarding_active' = FALSE

\* _enter_proxying_state resumed: release result, then enable_forwarding;
\* refresh_arp_table follows (the step that resumes puts the announce on the
\* wire).
ReleaseDone(ok) ==
    /\ IpReleaseResult(ok)
    /\ forwarding_active' = TRUE

\* What a transition that ran its entry action without waiting for a bind
\* or release command put on the wire: the gratuitous ARP of
\* refresh_arp_table, which only _enter_proxying_state calls.
EntryAnnounce(k) ==
    IF k.cs = "proxying" /\ current_state # "proxying" /\ k.await = "none"
      THEN "announce" ELSE "none"

(* ------------------------------------------------------------------ *)
(* ServerMonitor                                                       *)
(* ------------------------------------------------------------------ *)

\* update_server_state: the health after one probe.
UpdateServerState(is_online) == IF is_online THEN "online" ELSE "offline"

\* _on_server_state_change(old, new_state): the state it transitions to
\* (the current one when it does nothing).
OnServerStateChange(new_state) ==
    IF new_state = "online" /\ current_state = "starting" THEN "proxying"
    ELSE IF new_state = "offline" /\ current_state = "proxying" THEN "offline"
    ELSE current_state

\* _monitoring_loop: the callback runs when the probe's result differs from
\* the loop's own last_state.
MonitorSeesChange(cur) == cur # mon.last_state

\* One iteration of _monitoring_loop: the sleep ends, the probe completes,
\* and on a change the callback runs up to its first suspension.
MonitorPoll ==
    /\ mon.pc = "poll"
    /\ LET cur == UpdateServerState(hostUp)
           k == IF MonitorSeesChange(cur)
                  THEN Transition(Core, OnServerStateChange(cur))
                  ELSE Core
       IN /\ server_state' = cur
          /\ Commit(k, stats)
          /\ mon' = CASE k.await = "bind" -> [mon EXCEPT !.pc = "cb_bind"]
                      [] k.await = "release" -> [mon EXCEPT !.pc = "cb_release"]
                      [] OTHER -> [pc |-> "poll", last_state |-> cur]
          /\ ev' = Ev(EntryAnnounce(k), 0)
    /\ UNCHANGED <<ip_bound, is_running, main_pc, conn, bw, hostUp,
                   cmd_failures, arrivals, flips>>
    /\ UNCHANGED unitvars

\* The callback's transition to OFFLINE resumes after the bind command; the
\* loop then records last_state and sleeps.
MonitorBindDone(ok) ==
    /\ mon.pc = "cb_bind"
    /\ BindDone(ok)
    /\ mon' = [pc |-> "poll", last_state |-> "offline"]
    /\ ev' = Ev("none", 0)
    /\ UNCHANGED <<current_state, is_running, stats, server_state, main_pc,
                   conn, bw, hostUp, arrivals, flips>>
    /\ UNCHANGED unitvars

\* The callback's transition to PROXYING resumes after the release command.
MonitorReleaseDone(ok) ==
    /\ mon.pc = "cb_release"
    /\ ReleaseDone(ok)
    /\ mon' = [pc |-> "poll", last_state |-> "online"]
    /\ ev' = Ev("announce", 0)
    /\ UNCHANGED <<current_state, is_running, stats, server_state, main_pc,
                   conn, bw, hostUp, arrivals, flips>>
    /\ UNCHANGED unitvars

(* ------------------------------------------------------------------ *)
(* start, shutdown, process exit                                       *)
(* ------------------------------------------------------------------ *)

\* start() up to the bind command.
Start ==
    /\ main_pc = "new"
    /\ main_pc' = "start_bind"
    /\ ev' = Ev("none", 0)
    /\ UNCHANGED <<current_state, ip_bound, forwarding_active,
                   is_running, stats, server_state, mon, conn, bw, hostUp,
                   cmd_failures, arrivals, flips>>
    /\ UNCHANGED unitvars

\* start() resumed: on a failed bind it returns False and the process exits;
\* otherwise the listeners and the monitor are started, the (no-op)
\* transition to OFFLINE is made and is_running is set.
StartBound(ok) ==
    /\ main_pc = "start_bind"
    /\ IpBindResult(ok)
    /\ IF ok
         THEN LET k == Transition(Core, "offline")
              IN /\ Commit(k, stats)
                 /\ mon' = [pc |-> "poll", last_state |-> server_state]
                 /\ is_running' = TRUE
                 /\ main_pc' = "running"
                 /\ ev' = Ev("none", 0)
         ELSE /\ main_pc' = "exited"
              /\ ev' = Ev("none", 0)
              /\ UNCHANGED <<current_state, forwarding_active, stats, mon,
                             is_running>>
    /\ UNCHANGED <<server_state, conn, bw, hostUp, arrivals, flips>>
    /\ UNCHANGED unitvars

\* start() resumed after a bind that succeeded, and start_server raises
\* (the port is taken): the except clause calls shutdown(), which returns at
\* its first line because is_running is not set yet, start() returns False
\* and the process exits.
StartHandlersFail ==
    /\ main_pc = "start_bind"
    /\ IpBindResult(TRUE)
    /\ main_pc' = "exited"
    /\ ev' = Ev("none", 0)
    /\ UNCHANGED <<current_state, forwarding_active, stats, mon, is_running,
                   server_state, conn, bw, hostUp, arrivals, flips>>
    /\ UNCHANGED unitvars

\* shutdown() up to its first suspension: the transition to STOPPING,
\* is_running cleared, the monitor task cancelled.
Shutdown ==
    /\ main_pc = "running"
    /\ is_running
    /\ LET k == Transition(Core, "stopping")
       IN /\ Commit(k, stats)
          /\ ev' = Ev("none", 0)
    /\ is_running' = FALSE
    /\ mon' = [mon EXCEPT !.pc = "done"]
    /\ main_pc' = "sd_handlers"
    /\ UNCHANGED <<ip_bound, server_state, conn, bw, hostUp,
                   cmd_failures, arrivals, flips>>
    /\ UNCHANGED unitvars

\* shutdown() resumed after the monitor task ended: the listeners are closed
\* and the release is issued (it returns at once when the flag is clear).
ShutdownStopHandlers ==
    /\ main_pc = "sd_handlers"
    /\ main_pc' = IF ReleaseIsNoop THEN "stopped" ELSE "sd_release"
    /\ ev' = Ev("none", 0)
    /\ UNCHANGED <<current_state, ip_bound, forwarding_active,
                   is_running, stats, server_state, mon, conn, bw, hostUp,
                   cmd_failures, arrivals, flips>>
    /\ UNCHANGED unitvars

\* shutdown() resumed after the release command.
ShutdownReleased(ok) ==
    /\ main_pc = "sd_release"
    /\ IpReleaseResult(ok)
    /\ main_pc' = "stopped"
    /\ ev' = Ev("none", 0)
    /\ UNCHANGED <<current_state, forwarding_active, is_running, stats,
                   server_state, mon, conn, bw, hostUp, arrivals, flips>>
    /\ UNCHANGED unitvars

\* main_service returns and asyncio.run cancels every task still pending.
Exit ==
    /\ main_pc = "stopped"
    /\ main_pc' = "exited"
    /\ conn' = [t \in ClientTasks |-> 0]
    /\ bw' = [t \in BootWaitTasks |-> 0]
    /\ ev' = Ev("none", 0)
    /\ UNCHANGED <<current_state, ip_bound, forwarding_active,
                   is_running, stats, server_state, mon, hostUp, cmd_failures, arrivals, flips>>
    /\ UNCHANGED unitvars

(* ------------------------------------------------------------------ *)
(* _wake_server and wake_server_with_retry                             *)
(* ------------------------------------------------------------------ *)

\* The guard at the head of _wake_server.
WakeAllowed == current_state = "offline"

\* wake_server_with_retry sleeps after failed round number r only when
\* another round follows.
SleepsAfter(r) == r < MaxRetries

\* Faulty variant: the failure of every round is handled like a success.
WakeOutcomeAlwaysStarting(success) == "starting"

\* _wake_server: the state it transitions to once wake_server_with_retry
\* has returned success.
WakeOutcomeState(success) == IF success THEN "starting" ELSE "offline"

\* _wake_server after round r of the fan-out has returned ok; cl is the bag
\* of client tasks without the running one, k and st are the coordinator
\* fields and the counters as the task has left them so far in this step.
\* A failed round that is not the last one is followed by the retry sleep;
\* otherwise wake_server_with_retry returns, the transition is made, and on
\* success the boot-wait task is created.
AfterRound(cl, r, ok, k, st, sent) ==
    IF ~ok /\ SleepsAfter(r)
      THEN /\ Commit(k, st)
           /\ conn' = Put(cl, WakeSleep(r))
           /\ ev' = Ev(sent, 1)
           /\ UNCHANGED bw
      ELSE LET k2 == Transition(k, WakeOutcomeState(ok))
           IN /\ Commit(k2, st)
              /\ conn' = IF k2.await = "bind" THEN Put(cl, WakeBind) ELSE cl
              /\ bw' = IF ok THEN Put(bw, BwPoll(0)) ELSE bw
              /\ ev' = Ev(sent, 1)

\* Faulty variant: the wake attempt is not counted.
WakeServerUncounted(cl, ok, st, sent) ==
    IF WakeAllowed
      THEN AfterRound(cl, 1, ok, Transition(Core, "waking"), st, sent)
      ELSE /\ Commit(Core, st)
           /\ conn' = cl
           /\ ev' = Ev(sent, 0)
           /\ UNCHANGED bw

\* _wake_server(reason), up to its first suspension: the counter, the
\* transition to WAKING and the first fan-out round.
WakeServer(cl, ok, st, sent) ==
    IF WakeAllowed
      THEN AfterRound(cl, 1, ok, Transition(Core, "waking"),
                      [st EXCEPT !.wake_attempts = @ + 1], sent)
      ELSE /\ Commit(Core, st)
           /\ conn' = cl
           /\ ev' = Ev(sent, 0)
           /\ UNCHANGED bw

\* The retry sleep after failed round r ends and the next round runs.
WakeRetry(r, ok) ==
    /\ conn[WakeSleep(r)] > 0
    /\ AfterRound(Take(conn, WakeSleep(r)), r + 1, ok, Core, stats, "none")
    /\ UNCHANGED <<ip_bound, is_running, server_state, mon, main_pc,
                   hostUp, cmd_failures, arrivals, flips>>
    /\ UNCHANGED unitvars

\* The transition to OFFLINE after the exhausted retries resumes after the
\* bind command.
WakeBindDone(ok) ==
    /\ conn[WakeBind] > 0
    /\ BindDone(ok)
    /\ conn' = Take(conn, WakeBind)
    /\ ev' = Ev("none", 0)
    /\ UNCHANGED <<current_state, is_running, stats, server_state, mon, main_pc,
                   bw, hostUp, arrivals, flips>>
    /\ UNCHANGED unitvars

(* ------------------------------------------------------------------ *)
(* Client tasks: Minecraft connections and Satisfactory callbacks      *)
(* ------------------------------------------------------------------ *)

\* The listeners accept from the end of start() until shutdown() closes them.
Listening == main_pc \in {"running", "sd_handlers"}

\* _handle_minecraft_connection: is_starting as computed on accept.
IsStarting == current_state \in {"waking", "starting"}

\* Faulty variant: no connection is ever handed to the forwarding path.
IsForwardedNever == FALSE

\* _handle_minecraft_connection: a connection accepted in this state is
\* spliced to the host instead of being answered by the proxy.
IsForwarded == current_state = "proxying"

\* create_status_response(is_starting): the variant served.
StatusVariant(is_starting) == IF is_starting THEN "status_starting" ELSE "status_offline"

\* _handle_minecraft_connection / _handle_satisfactory_traffic: an intent
\* calls _wake_server only in this state.
IntentWakes == current_state = "offline"

\* A Minecraft connection is accepted: the counter, is_starting, and either
\* the forwarding path (PROXYING; the splice touches nothing of the
\* coordinator and is not followed further) or the read of the handshake.
McAccept ==
    /\ Listening
    /\ arrivals > 0
    /\ arrivals' = arrivals - 1
    /\ stats' = [stats EXCEPT !.minecraft_connections = @ + 1]
    /\ conn' = IF IsForwarded THEN conn ELSE Put(conn, McRead(IsStarting))
    /\ ev' = Ev(IF IsForwarded THEN "splice" ELSE "none", 0)
    /\ UNCHANGED <<current_state, ip_bound, forwarding_active,
                   is_running, server_state, mon, main_pc, bw, hostUp,
                   cmd_failures, flips>>
    /\ UNCHANGED unitvars

\* Faulty variant: a status probe is reported to the caller as a login.
HandleClientConnectionStatusAsLogin(is_starting, next_state) ==
    IF next_state = NextStatus
      THEN [sent |-> StatusVariant(is_starting), is_login |-> TRUE]
      ELSE IF next_state = NextLogin
        THEN [sent |-> "disconnect", is_login |-> TRUE]
        ELSE [sent |-> "none", is_login |-> FALSE]

\* handle_client_connection(reader, writer, is_starting) from the arrival of
\* the first frame to its return: what it writes to the client and the
\* is_login it returns.  next_state 0 stands for no parsable handshake
\* (closed, timed out, malformed, wrong packet id).
HandleClientConnection(is_starting, next_state) ==
    IF next_state = NextStatus
      THEN [sent |-> StatusVariant(is_starting), is_login |-> FALSE]
      ELSE IF next_state = NextLogin
        THEN [sent |-> "disconnect", is_login |-> TRUE]
        ELSE [sent |-> "none", is_login |-> FALSE]

\* _handle_minecraft_connection resumed with the first frame of a connection
\* accepted with is_starting = b: the handler answers and closes the socket,
\* and a login wakes the server when the state is OFFLINE.  The writes and
\* the close are taken in one step with the read of the state that follows
\* them.
McHandshake(b, next_state, ok) ==
    /\ conn[McRead(b)] > 0
    /\ LET cl == Take(conn, McRead(b))
           r == HandleClientConnection(b, next_state)
       IN IF r.is_login /\ IntentWakes
            THEN WakeServer(cl, ok, stats, r.sent)
            ELSE /\ conn' = cl
                 /\ ev' = Ev(r.sent, 0)
                 /\ UNCHANGED <<current_state, forwarding_active, stats, bw>>
    /\ UNCHANGED <<ip_bound, is_running, server_state, mon, main_pc,
                   hostUp, cmd_failures, arrivals, flips>>
    /\ UNCHANGED unitvars

\* datagram_received, the end of it: the datagram is handed to forward_packet
\* (which sends it to the host on the same port) when the handler's flag is
\* set, and is dropped otherwise.
Relay == IF forwarding_active THEN "relay" ELSE "none"

\* A datagram from a source not in the active set arrives and the traffic
\* callback it schedules runs (taken in one step): the counter, and the wake
\* when OFFLINE.  The forward_packet task of the datagram is taken in the
\* same step.
SatTraffic(ok) ==
    /\ Listening
    /\ arrivals > 0
    /\ arrivals' = arrivals - 1
    /\ LET st == [stats EXCEPT !.satisfactory_connections = @ + 1]
       IN IF IntentWakes
            THEN WakeServer(conn, ok, st, Relay)
            ELSE /\ stats' = st
                 /\ ev' = Ev(Relay, 0)
                 /\ UNCHANGED <<current_state, forwarding_active, conn, bw>>
    /\ UNCHANGED <<ip_bound, is_running, server_state, mon, main_pc,
                   hostUp, cmd_failures, flips>>
    /\ UNCHANGED unitvars

(* ------------------------------------------------------------------ *)
(* Boot-wait tasks: _wait_for_server_online                            *)
(* ------------------------------------------------------------------ *)

\* Faulty variant: the deadline is never seen to pass.
TimedOutNever(polls) == FALSE

\* wait_for_server_online: the deadline has passed after this many failed
\* probes.
TimedOut(polls) == polls >= BootPolls

\* Faulty variant: a wake that succeeded is counted twice.
CountSuccessfulWakeTwice(st) == [st EXCEPT !.successful_wakes = @ + 2]

\* _wait_for_server_online: the host was seen online.
CountSuccessfulWake(st) == [st EXCEPT !.successful_wakes = @ + 1]

\* One poll of a boot-wait task that has seen n failed probes: the probe
\* completes; on ONLINE the task counts a successful wake and transitions to
\* PROXYING, on a timeout it transitions to OFFLINE, otherwise it sleeps
\* check_interval.
BootWaitPoll(n) ==
    /\ bw[BwPoll(n)] > 0
    /\ LET cur == UpdateServerState(hostUp)
           rest == Take(bw, BwPoll(n))
       IN /\ server_state' = cur
          /\ IF cur = "online"
               THEN LET kk == Transition(Core, "proxying")
                    IN /\ Commit(kk, CountSuccessfulWake(stats))
                       /\ bw' = IF kk.await = "release" THEN Put(rest, BwRel) ELSE rest
                       /\ ev' = Ev(EntryAnnounce(kk), 0)
               ELSE IF TimedOut(n + 1)
                 THEN LET kk == Transition(Core, "offline")
                      IN /\ Commit(kk, stats)
                         /\ bw' = IF kk.await = "bind" THEN Put(rest, BwBind) ELSE rest
                         /\ ev' = Ev("none", 0)
                 ELSE /\ bw' = Put(rest, BwPoll(n + 1))
                      /\ ev' = Ev("none", 0)
                      /\ UNCHANGED <<current_state, forwarding_active, stats>>
    /\ UNCHANGED <<ip_bound, is_running, mon, main_pc, conn, hostUp,
                   cmd_failures, arrivals, flips>>
    /\ UNCHANGED unitvars

\* The task's transition to OFFLINE resumes after the bind command.
BootWaitBindDone(ok) ==
    /\ bw[BwBind] > 0
    /\ BindDone(ok)
    /\ bw' = Take(bw, BwBind)
    /\ ev' = Ev("none", 0)
    /\ UNCHANGED <<current_state, is_running, stats, server_state, mon, main_pc,
                   conn, hostUp, arrivals, flips>>
    /\ UNCHANGED unitvars

\* The task's transition to PROXYING resumes after the release command.
BootWaitReleaseDone(ok) ==
    /\ bw[BwRel] > 0
    /\ ReleaseDone(ok)
    /\ bw' = Take(bw, BwRel)
    /\ ev' = Ev("announce", 0)
    /\ UNCHANGED <<current_state, is_running, stats, server_state, mon, main_pc,
                   conn, hostUp, arrivals, flips>>
    /\ UNCHANGED unitvars

(* ------------------------------------------------------------------ *)
(* Environment and specification                                       *)
(* ------------------------------------------------------------------ *)

\* The real host starts or stops answering on its TCP port.
HostToggle ==
    /\ main_pc # "exited"
    /\ flips > 0
    /\ flips' = flips - 1
    /\ hostUp' = ~hostUp
    /\ ev' = Ev("none", 0)
    /\ UNCHANGED <<current_state, ip_bound, forwarding_active,
                   is_running, stats, server_state, mon, main_pc, conn, bw,
                   cmd_failures, arrivals>>
    /\ UNCHANGED unitvars

Next ==
    \/ Start
    \/ \E ok \in Outcomes : StartBound(ok)
    \/ StartHandlersFail
    \/ Shutdown
    \/ ShutdownStopHandlers
    \/ \E ok \in Outcomes : ShutdownReleased(ok)
    \/ Exit
    \/ MonitorPoll
    \/ \E ok \in Outcomes : MonitorBindDone(ok)
    \/ \E ok \in Outcomes : MonitorReleaseDone(ok)
    \/ McAccept
    \/ \E b \in BOOLEAN, ns \in 0..3, ok \in BOOLEAN : McHandshake(b, ns, ok)
    \/ \E ok \in BOOLEAN : SatTraffic(ok)
    \/ \E r \in 1..(MaxRetries - 1), ok \in BOOLEAN : WakeRetry(r, ok)
    \/ \E ok \in Outcomes : WakeBindDone(ok)
    \/ \E n \in 0..(BootPolls - 1) : BootWaitPoll(n)
    \/ \E ok \in Outcomes : BootWaitBindDone(ok)
    \/ \E ok \in Outcomes : BootWaitReleaseDone(ok)
    \/ HostToggle

Spec == Init /\ [][Next]_vars

\* The same program with room for three wake attempts.
InitWide == InitWith(WideConns, WideFlips)
SpecWide == InitWide /\ [][Next]_vars

\* The program under fair scheduling in a quiet environment: no shutdown is
\* requested, every bind and release command succeeds, and the only clients
\* are Satisfactory sources.
NextLive ==
    \/ Start
    \/ StartBound(TRUE)
    \/ MonitorPoll
    \/ MonitorBindDone(TRUE)
    \/ MonitorReleaseDone(TRUE)
    \/ \E ok \in BOOLEAN : SatTraffic(ok)
    \/ \E r \in 1..(MaxRetries - 1), ok \in BOOLEAN : WakeRetry(r, ok)
    \/ WakeBindDone(TRUE)
    \/ \E n \in 0..(BootPolls - 1) : BootWaitPoll(n)
    \/ BootWaitBindDone(TRUE)
    \/ BootWaitReleaseDone(TRUE)
    \/ HostToggle

\* The event loop runs every task that is ready: a task whose sleep, probe
\* or command can complete is eventually resumed.  Clients and the host owe
\* nothing.
Fairness ==
    /\ WF_vars(Start)
    /\ WF_vars(StartBound(TRUE))
    /\ WF_vars(MonitorPoll)
    /\ WF_vars(MonitorBindDone(TRUE))
    /\ WF_vars(MonitorReleaseDone(TRUE))
    /\ WF_vars(\E r \in 1..(MaxRetries - 1), ok \in BOOLEAN : WakeRetry(r, ok))
    /\ WF_vars(WakeBindDone(TRUE))
    /\ WF_vars(\E n \in 0..(BootPolls - 1) : BootWaitPoll(n))
    /\ WF_vars(BootWaitBindDone(TRUE))
    /\ WF_vars(BootWaitReleaseDone(TRUE))

LiveSpec == InitWide /\ [][NextLive]_vars /\ Fairness

(* ------------------------------------------------------------------ *)
(* The WoLSender on its own                                            *)
(* ------------------------------------------------------------------ *)

\* A sender for every target address and every broadcast address computed
\* from it; the proxy is not started.
InitWol ==
    /\ ProxyInit(0, 0)
    /\ UnitsIdle("wol")
    /\ \E t \in TargetIps : \E b \in GetBroadcastAddress(t) :
         wol = WoLSender(SampleMac, b, t)

\* wake_server_with_retry(max_retries) is called: it runs up to its return
\* or its first retry sleep.
WakeServerWithRetry(max_retries, sock_ok, errors) ==
    /\ wol.pc = "idle"
    /\ wol' = RetryFrom([wol EXCEPT !.max_retries = max_retries], 0,
                        sock_ok, errors)
    /\ UNCHANGED NotWol

\* The retry sleep ends and the loop goes on.
RetrySleepEnds(sock_ok, errors) ==
    /\ wol.pc = "sleep"
    /\ wol' = RetryFrom(wol, wol.attempt + 1, sock_ok, errors)
    /\ UNCHANGED NotWol

NextWol ==
    \/ \E n \in 0..MaxRetriesArg, env \in RoundEnvs(wol) :
         WakeServerWithRetry(n, env.sock_ok, env.errors)
    \/ \E env \in RoundEnvs(wol) :
         RetrySleepEnds(env.sock_ok, env.errors)

\* The event loop makes the call and ends every sleep.
WolSpec == InitWol /\ [][NextWol]_vars /\ WF_vars(NextWol)

\* A sender for every MAC address; the proxy is not started.
InitFrame ==
    /\ ProxyInit(0, 0)
    /\ UnitsIdle("wol")
    /\ \E mac \in MACs : wol = WoLSender(mac, "192.168.1.255", "192.168.1.100")

\* _create_magic_packet() is called (by send_wol_packet or get_packet_info).
CreateMagicPacketCall ==
    /\ wol.calls < MaxCalls
    /\ wol' = [wol EXCEPT !.frame = CreateMagicPacket(wol.mac_bytes),
                          !.calls = @ + 1]
    /\ UNCHANGED NotWol

NextFrame == CreateMagicPacketCall

FrameSpec == InitFrame /\ [][NextFrame]_vars

(* ------------------------------------------------------------------ *)
(* The PacketBuffer on its own                                         *)
(* ------------------------------------------------------------------ *)

\* An empty buffer; the proxy is not started.
InitBuffer ==
    /\ ProxyInit(0, 0)
    /\ UnitsIdle("buffer")
    /\ buffer = BufferUnit(<<>>)

\* write_varint(value) is called.
BufWriteVarint(value) ==
    /\ Len(buffer.written) < MaxItems
    /\ LET w == WriteVarint(buffer.buf, value)
       IN buffer' = [buffer EXCEPT
                       !.buf = w.buf,
                       !.written = Append(@, [kind |-> "varint", value |-> value,
                                              end |-> Len(w.buf.data)])]
    /\ UNCHANGED NotBuffer

\* write_string(value) is called.
BufWriteString(value) ==
    /\ Len(buffer.written) < MaxItems
    /\ LET w == WriteString(buffer.buf, value)
       IN buffer' = [buffer EXCEPT
                       !.buf = w.buf,
                       !.written = Append(@, [kind |-> "string", value |-> value,
                                              end |-> Len(w.buf.data)])]
    /\ UNCHANGED NotBuffer

\* read_varint() is called where the next value was written as a VarInt.
BufReadVarint ==
    /\ Len(buffer.got) < Len(buffer.written)
    /\ buffer.written[Len(buffer.got) + 1].kind = "varint"
    /\ LET r == ReadVarint(buffer.buf)
       IN buffer' = [buffer EXCEPT
                       !.buf = r.buf,
                       !.got = Append(@, [value |-> r.value, pos |-> r.buf.pos,
                                          err |-> r.err])]
    /\ UNCHANGED NotBuffer

\* read_string() is called where the next value was written as a String.
BufReadString ==
    /\ Len(buffer.got) < Len(buffer.written)
    /\ buffer.written[Len(buffer.got) + 1].kind = "string"
    /\ LET r == ReadString(buffer.buf)
       IN buffer' = [buffer EXCEPT
                       !.buf = r.buf,
                       !.got = Append(@, [value |-> r.value, pos |-> r.buf.pos,
                                          err |-> r.err])]
    /\ UNCHANGED NotBuffer

NextBuffer ==
    \/ \E value \in VarInts : BufWriteVarint(value)
    \/ \E value \in Strings : BufWriteString(value)
    \/ BufReadVarint
    \/ BufReadString

BufferSpec == InitBuffer /\ [][NextBuffer]_vars

(* ------------------------------------------------------------------ *)
(* A PacketBuffer over bytes that nobody encoded                       *)
(* ------------------------------------------------------------------ *)

\* The bytes a buffer is made of: a beginning (encodings of one, two and
\* five bytes, encodings that go on after the fifth byte, and encodings
\* that stop short) and what follows it.
RawPrefixes ==
    {<<0>>, <<172, 2>>, <<255, 255, 255, 255, 7>>,
     <<128, 128, 128, 128, 128, 1>>, <<255, 255, 255, 255, 135, 1>>,
     <<128, 128, 128, 128, 128>>,
     <<>>, <<128>>, <<172>>, <<255, 255, 255, 255>>}
RawSuffixes == {<<>>, <<0>>, <<5>>, <<128, 1>>}

\* The values handed to write_varint.
RawValues == {-300, -1, 0, 5, 1024}

InitRaw ==
    /\ ProxyInit(0, 0)
    /\ UnitsIdle("buffer")
    /\ \E prefix \in RawPrefixes, suffix \in RawSuffixes :
         buffer = BufferUnit(prefix \o suffix)

\* read_varint() is called.
RawReadVarint ==
    /\ Len(buffer.got) < MaxReads
    /\ LET r == ReadVarint(buffer.buf)
       IN buffer' = [buffer EXCEPT
                       !.buf = r.buf,
                       !.got = Append(@, [start |-> buffer.buf.pos,
                                          data |-> buffer.buf.data,
                                          value |-> r.value, pos |-> r.buf.pos,
                                          err |-> r.err])]
    /\ UNCHANGED NotBuffer

\* write_varint(value) is called.
RawWriteVarint(value) ==
    /\ Len(buffer.written) < MaxItems
    /\ LET w == WriteVarint(buffer.buf, value)
       IN buffer' = [buffer EXCEPT
                       !.buf = w.buf,
                       !.written = Append(@, [value |-> value,
                                              before |-> buffer.buf,
                                              after |-> w.buf,
                                              err |-> w.err])]
    /\ UNCHANGED NotBuffer

NextRaw ==
    \/ RawReadVarint
    \/ \E value \in RawValues : RawWriteVarint(value)

RawSpec == InitRaw /\ [][NextRaw]_vars

(* ------------------------------------------------------------------ *)
(* The status exchange on its own                                      *)
(* ------------------------------------------------------------------ *)

\* A connection whose handshake asked for the status; the proxy is not
\* started.
InitProbe ==
    /\ ProxyInit(0, 0)
    /\ UnitsIdle("probe")
    /\ probe = StatusExchange

\* _handle_status_request(reader, writer, is_starting) is called: the status
\* response is written and the handler waits for the next read.
SendStatusResponse(is_starting) ==
    /\ probe.pc = "idle"
    /\ probe' = [probe EXCEPT !.pc = "await_ping",
                              !.response = StatusVariant(is_starting)]
    /\ UNCHANGED NotProbe

\* The read returns ping_data (empty: the client closed) within the five
\* seconds; the handler answers, returns, and handle_client_connection
\* closes the writer.
PingArrives(ping_data) ==
    /\ probe.pc = "await_ping"
    /\ LET h == HandlePingData(ping_data)
       IN probe' = [probe EXCEPT
                      !.pc = "closed",
                      !.arrival = IF ping_data = <<>> THEN "eof" ELSE "data",
                      !.ping_data = ping_data,
                      !.pong = h.pong, !.logged = h.logged, !.closed = TRUE]
    /\ UNCHANGED NotProbe

\* The five seconds pass: asyncio.TimeoutError is caught, the handler
\* returns, and handle_client_connection closes the writer.
PingTimeout ==
    /\ probe.pc = "await_ping"
    /\ probe' = [probe EXCEPT !.pc = "closed", !.arrival = "timeout",
                              !.closed = TRUE]
    /\ UNCHANGED NotProbe

NextProbe ==
    \/ \E is_starting \in BOOLEAN : SendStatusResponse(is_starting)
    \/ \E p \in Payloads : PingArrives(<<9, PingId>> \o p)
    \/ \E d \in OtherReads \cup {<<>>} : PingArrives(d)
    \/ PingTimeout

ProbeSpec == InitProbe /\ [][NextProbe]_vars

(* ------------------------------------------------------------------ *)
(* The IPAddressManager on its own                                     *)
(* ------------------------------------------------------------------ *)

\* A manager on every interface and with every ip command; the proxy is not
\* started.
InitIpm ==
    /\ ProxyInit(0, 0)
    /\ UnitsIdle("ipm")
    /\ \E assigned \in BOOLEAN, works \in BOOLEAN :
         ipm = IPAddressManager(assigned, works)

\* What a call leaves in the log.
Logged(op, before, r) ==
    [op |-> op, before |-> before.assigned, result |-> r.result,
     ip_bound |-> r.m.ip_bound, assigned |-> r.m.assigned]

\* bind_ip_address() is called and returns.
BindCall ==
    /\ Len(ipm.log) < MaxIpCalls
    /\ LET r == BindIpAddress(ipm)
       IN ipm' = [r.m EXCEPT !.log = Append(@, Logged("bind", ipm, r))]
    /\ UNCHANGED NotIpm

\* release_ip_address() is called and returns.
ReleaseCall ==
    /\ Len(ipm.log) < MaxIpCalls
    /\ LET r == ReleaseIpAddress(ipm)
       IN ipm' = [r.m EXCEPT !.log = Append(@, Logged("release", ipm, r))]
    /\ UNCHANGED NotIpm

\* Somebody else adds the address to the interface or removes it.
OutsideChange ==
    /\ ipm.outside < MaxOutside
    /\ ipm' = [ipm EXCEPT !.assigned = ~@, !.outside = @ + 1]
    /\ UNCHANGED NotIpm

NextIpm == BindCall \/ ReleaseCall \/ OutsideChange

IpmSpec == InitIpm /\ [][NextIpm]_vars

(* ------------------------------------------------------------------ *)
(* A forwarded connection on its own                                   *)
(* ------------------------------------------------------------------ *)

InitForward ==
    /\ ProxyInit(0, 0)
    /\ UnitsIdle("fwd")
    /\ fwd = ForwardedConnection

\* _forward_minecraft_connection is called and awaits open_connection.
ForwardMinecraftConnection ==
    /\ fwd.pc = "idle"
    /\ fwd' = [fwd EXCEPT !.pc = "connecting"]
    /\ UNCHANGED NotFwd

\* open_connection returns the two streams and the two tasks are created,
\* or it raises: the except clause logs and the finally block runs.
OpenConnection(ok) ==
    /\ fwd.pc = "connecting"
    /\ fwd' = IF ok
              THEN [fwd EXCEPT !.pc = "gather", !.server_writer = "open",
                               !.task = [d \in Directions |-> "running"]]
              ELSE CleanUp([fwd EXCEPT !.logged = @ \cup {<<"failed">>}])
    /\ UNCHANGED NotFwd

\* One forward_data task runs one round of its loop.
ForwardDataStep(direction, outcome) ==
    /\ fwd.pc = "gather"
    /\ fwd.task[direction] = "running"
    /\ outcome = "data" => fwd.moved[direction] < MaxChunks
    /\ fwd' = ForwardData(fwd, direction, outcome)
    /\ UNCHANGED NotFwd

\* Both tasks are done: gather returns and the finally block runs.
GatherReturns ==
    /\ fwd.pc = "gather"
    /\ \A d \in Directions : fwd.task[d] = "ended"
    /\ fwd' = CleanUp(fwd)
    /\ UNCHANGED NotFwd

NextForward ==
    \/ ForwardMinecraftConnection
    \/ \E ok \in BOOLEAN : OpenConnection(ok)
    \/ \E d \in Directions, outcome \in {"data", "eof", "error"} :
         ForwardDataStep(d, outcome)
    \/ GatherReturns

ForwardSpec == InitForward /\ [][NextForward]_vars

\* A forward_data task whose source_reader has reached the end of the
\* stream because the proxy closed the transport: its read returns.
ClosedSourceStep(direction) ==
    /\ SourceClosed(fwd, direction)
    /\ \E outcome \in {"data", "eof", "error"} :
         ForwardDataStep(direction, outcome)

\* The event loop runs what is ready: a read on a closed transport returns
\* and gather returns once both tasks are done.  Nothing makes a peer send
\* or close.
ForwardLiveSpec ==
    /\ ForwardSpec
    /\ WF_vars(GatherReturns)
    /\ \A d \in Directions : WF_vars(ClosedSourceStep(d))

(* ------------------------------------------------------------------ *)
(* The UDP listeners on their own                                      *)
(* ------------------------------------------------------------------ *)

InitSat ==
    /\ ProxyInit(0, 0)
    /\ UnitsIdle("sat")
    /\ sat = SatisfactoryProtocols

\* A datagram of a source arrives on a port: datagram_received runs.
DatagramArrives(port, client_id) ==
    /\ sat.stats.packets_received < MaxDatagrams
    /\ LET r == DatagramReceived(sat.active_connections[port], port,
                                 client_id, sat.clock)
           before == sat.heard[port][client_id]
       IN sat' = [sat EXCEPT
                    !.active_connections[port] = r.active_connections,
                    !.events = @ \o r.events,
                    !.stats.packets_received = @ + 1,
                    !.stats.connections_detected = @ + Len(r.events),
                    !.heard[port][client_id] = sat.clock,
                    !.last = [port |-> port, client_id |-> client_id,
                              silence |-> IF before < 0 THEN -1
                                          ELSE sat.clock - before]]
    /\ UNCHANGED NotSat

\* Time passes with no datagram on any port.
TimePasses(seconds) ==
    /\ sat.ticks < MaxTicks
    /\ sat' = [sat EXCEPT !.clock = @ + seconds, !.ticks = @ + 1]
    /\ UNCHANGED NotSat

NextSat ==
    \/ \E port \in SatPorts, client_id \in Sources :
         DatagramArrives(port, client_id)
    \/ \E seconds \in TickSeconds : TimePasses(seconds)

SatSpec == InitSat /\ [][NextSat]_vars

(* ------------------------------------------------------------------ *)
(* The first frame of a connection on its own                          *)
(* ------------------------------------------------------------------ *)

InitHandshake ==
    /\ ProxyInit(0, 0)
    /\ UnitsIdle("hs")
    /\ hs = HandshakeExchange

\* _handle_minecraft_connection in a state other than PROXYING: the handler
\* is called and awaits the first read.
HandshakeAccept(state) ==
    /\ hs.pc = "idle"
    /\ hs' = [hs EXCEPT !.pc = "reading", !.state = state]
    /\ UNCHANGED NotHs

\* handle_client_connection from the end of its first read to its return,
\* and the caller's reaction to the value returned; next_state 0 stands for
\* no dictionary.
HandshakeDone(arrival, frame, next_state) ==
    LET r == HandleClientConnection(hs.state \in {"waking", "starting"},
                                    next_state)
    IN hs' = [hs EXCEPT !.pc = "done", !.arrival = arrival, !.frame = frame,
                        !.sent = r.sent, !.is_login = r.is_login,
                        !.closed = TRUE,
                        !.wake = r.is_login /\ hs.state = "offline"]

\* The first read returns the bytes of a frame.
HandshakeFrameArrives(f) ==
    /\ hs.pc = "reading"
    /\ LET info == ParseHandshakePacket(FrameBytes(f))
       IN HandshakeDone("frame", f,
                        IF info.parsed THEN info.next_state ELSE 0)
    /\ UNCHANGED NotHs

\* The first read returns nothing (the client has closed) or does not
\* return within five seconds.
HandshakeNoFrame(arrival) ==
    /\ hs.pc = "reading"
    /\ HandshakeDone(arrival, <<>>, 0)
    /\ UNCHANGED NotHs

NextHandshake ==
    \/ \E state \in {"offline", "waking", "starting", "stopping"} :
         HandshakeAccept(state)
    \/ \E f \in Frames : HandshakeFrameArrives(f)
    \/ \E arrival \in {"closed", "timeout"} : HandshakeNoFrame(arrival)

HandshakeSpec == InitHandshake /\ [][NextHandshake]_vars

(* ------------------------------------------------------------------ *)
(* The ServerMonitor's health record on its own                        *)
(* ------------------------------------------------------------------ *)

\* Faulty variant: a result does not reset the counter of the other result.
UpdateHealthKeepsRuns(m, is_online) ==
    LET changed == m.current_state # UpdateServerState(is_online)
        st == [m.stats EXCEPT !.state_changes = IF changed THEN @ + 1 ELSE @]
    IN IF is_online
         THEN [m EXCEPT !.consecutive_successes = @ + 1,
                        !.stats = [st EXCEPT !.successful_checks = @ + 1],
                        !.current_state = "online"]
         ELSE [m EXCEPT !.consecutive_failures = @ + 1,
                        !.stats = [st EXCEPT !.failed_checks = @ + 1],
                        !.current_state = "offline"]

\* update_server_state after comprehensive_server_check has returned
\* is_online: the counters, the statistics and the state.
UpdateHealth(m, is_online) ==
    LET changed == m.current_state # UpdateServerState(is_online)
        st == [m.stats EXCEPT !.state_changes = IF changed THEN @ + 1 ELSE @]
    IN IF is_online
         THEN [m EXCEPT !.consecutive_failures = 0,
                        !.consecutive_successes = @ + 1,
                        !.stats = [st EXCEPT !.successful_checks = @ + 1],
                        !.current_state = UpdateServerState(is_online)]
         ELSE [m EXCEPT !.consecutive_successes = 0,
                        !.consecutive_failures = @ + 1,
                        !.stats = [st EXCEPT !.failed_checks = @ + 1],
                        !.current_state = UpdateServerState(is_online)]

InitHealth ==
    /\ ProxyInit(0, 0)
    /\ UnitsIdle("health")
    /\ health = ServerMonitor

\* update_server_state is called and awaits the probe.
ProbeStarts ==
    /\ health.stats.total_checks < MaxProbes
    /\ health.stats.total_checks - Len(health.outcomes) < ProbeCallers
    /\ health' = [health EXCEPT !.stats.total_checks = @ + 1]
    /\ UNCHANGED NotHealth

\* The probe of one caller returns and update_server_state runs to its end.
ProbeReturns(is_online) ==
    /\ health.stats.total_checks > Len(health.outcomes)
    /\ health' = [UpdateHealth(health, is_online)
                    EXCEPT !.outcomes = Append(@, is_online)]
    /\ UNCHANGED NotHealth

NextHealth ==
    \/ ProbeStarts
    \/ \E is_online \in BOOLEAN : ProbeReturns(is_online)

HealthSpec == InitHealth /\ [][NextHealth]_vars

(* ------------------------------------------------------------------ *)
(* Properties                                                          *)
(* ------------------------------------------------------------------ *)

\* States in which the address is meant to be held by the proxy.
GatedStates == {"offline", "waking", "starting"}

\* Some task is suspended inside an entry action (its bind or release
\* command has not returned yet).
EntryPending ==
    \/ mon.pc \in {"cb_bind", "cb_release"}
    \/ conn[WakeBind] > 0
    \/ bw[BwBind] > 0
    \/ bw[BwRel] > 0

\* The service is running, no entry action is in flight and no command has
\* ever failed.
Settled == is_running /\ ~EntryPending /\ cmd_failures = 0

\* Wake tasks between two rounds of the fan-out.
SleepingWakes == {r \in 1..(MaxRetries - 1) : conn[WakeSleep(r)] > 0}

\* The steps that carry a client intent: a login handshake, or a datagram
\* from a new Satisfactory source.
LoginStep == \E b \in BOOLEAN, ok \in BOOLEAN : McHandshake(b, NextLogin, ok)
DatagramStep == \E ok \in BOOLEAN : SatTraffic(ok)
IntentStep == LoginStep \/ DatagramStep

\* The step that answers a status probe.
StatusStep == \E b \in BOOLEAN : McHandshake(b, NextStatus, TRUE)

\* C1: in every state the bound flag is set exactly when the ProxyState is
\* Offline, Waking or Starting.  Stated here for the settled states only
\* (running, no entry action in flight, no command failure), where even the
\* weaker statement fails.
C1_BoundIffGated == Settled => (ip_bound <=> current_state \in GatedStates)

\* C2: Protocol-B forwarding is active exactly when the ProxyState is
\* Proxying.  Stated for the settled states only, as C1.
C2_ForwardingIffProxying ==
    Settled => (forwarding_active <=> current_state = "proxying")

\* C3: whenever a status response is sent, it is the "starting" variant
\* exactly when the state at that moment is Waking or Starting, and the
\* "offline" variant exactly when it is Offline.  Stated for the responses
\* sent while the service is running (not during shutdown).
C3_StatusVariantTracksState ==
    [][(StatusStep /\ is_running) =>
         /\ (ev'.sent = "status_starting" <=> current_state \in {"waking", "starting"})
         /\ (ev'.sent = "status_offline" <=> current_state = "offline")]_vars

\* C4: Stopping is terminal: once the state is Stopping no step leaves it.
C4_StoppingIsTerminal ==
    [][current_state = "stopping" => current_state' = "stopping"]_vars

\* C5: a client intent that arrives in Offline moves the state through
\* Waking (ending the step in Waking, or in Starting when the first round
\* of the fan-out already succeeds), counts exactly one wake attempt and
\* sends the magic frame; a Minecraft login is also answered with the
\* disconnect packet.
C5_IntentInOfflineWakes ==
    [][(current_state = "offline" /\ IntentStep) =>
         /\ stats'.wake_attempts = stats.wake_attempts + 1
         /\ ev'.frames = 1
         /\ \/ /\ current_state' = "waking"
               /\ stats'.state_transitions = stats.state_transitions + 1
            \/ /\ current_state' = "starting"
               /\ stats'.state_transitions = stats.state_transitions + 2
         /\ ~forwarding_active'
         /\ (LoginStep => ev'.sent = "disconnect")]_vars

\* C5 witness: a login has just been answered with the disconnect packet and
\* has started the first wake attempt.
C5_Witness ==
    /\ ev = Ev("disconnect", 1)
    /\ current_state = "waking"
    /\ stats.wake_attempts = 1
    /\ conn[WakeSleep(1)] = 1

\* C6: at most one wake sequence is in progress at any time: no two wake
\* tasks are between rounds of their fan-outs together.
C6_OneWakeInProgress ==
    /\ \A r \in 1..(MaxRetries - 1) : conn[WakeSleep(r)] <= 1
    /\ Cardinality(SleepingWakes) <= 1

\* C7: a status probe never triggers a wake: the step that answers it
\* leaves the state, the wake_attempts counter and the bound flag unchanged
\* and sends no magic frame.
C7_StatusNeverWakes ==
    [][StatusStep =>
         /\ current_state' = current_state
         /\ stats'.wake_attempts = stats.wake_attempts
         /\ ip_bound' = ip_bound
         /\ forwarding_active' = forwarding_active
         /\ bw' = bw
         /\ ev'.frames = 0]_vars

\* C7 witness: a status probe has just been answered while the proxy is
\* running in Offline, and nothing has been woken.
C7_Witness ==
    /\ ev = Ev("status_offline", 0)
    /\ is_running
    /\ current_state = "offline"
    /\ stats.minecraft_connections >= 1
    /\ stats.wake_attempts = 0

\* C8: when the last round of a wake fails too, the step ends in Offline
\* (a state in which an intent wakes again) with successful_wakes unchanged
\* and no boot-wait task created; and no round after the first counts a
\* further attempt, so the whole wake has counted exactly one.
C8_ExhaustedWakeReturnsOffline ==
    [][/\ (\E r \in 1..(MaxRetries - 1), ok \in BOOLEAN : WakeRetry(r, ok))
            => stats'.wake_attempts = stats.wake_attempts
       /\ WakeRetry(MaxRetries - 1, FALSE) =>
            /\ current_state' = "offline"
            /\ IntentWakes'
            /\ stats'.successful_wakes = stats.successful_wakes
            /\ bw' = bw]_vars

\* C8 witness: the only wake attempt so far has just failed its last round:
\* the state is back in Offline, the task is in the bind of the Offline
\* entry, nothing was counted as a success and no boot-wait task exists.
C8_Witness ==
    /\ current_state = "offline"
    /\ conn[WakeBind] = 1
    /\ ev.frames = 1
    /\ stats.wake_attempts = 1
    /\ stats.successful_wakes = 0
    /\ bw = [t \in BootWaitTasks |-> 0]

\* Proxying has been entered completely: the address is released and
\* forwarding is on.
ProxyingEntered == current_state = "proxying" /\ ~ip_bound /\ forwarding_active

\* C9: a liveness probe of the monitor that fails while the proxy is in
\* Proxying (entered completely, nothing else in flight) moves the state to
\* Offline.
C9_FailedProbeLeavesProxying ==
    [][(MonitorPoll /\ ~hostUp /\ ProxyingEntered /\ Settled)
         => current_state' = "offline"]_vars

\* C10: from Starting with the host reachable, the proxy eventually is in
\* Proxying with the address released and forwarding on, unless the host
\* stops answering.
C10_StartingReachesProxying ==
    (current_state = "starting" /\ hostUp) ~> (ProxyingEntered \/ ~hostUp)

\* Offline has been entered completely: the address is bound and
\* forwarding is off.
OfflineEntered == current_state = "offline" /\ ip_bound /\ ~forwarding_active

\* C11: from Starting, unless the host becomes reachable, the proxy
\* eventually is back in Offline with the address bound and forwarding off
\* (a state in which the next intent wakes again); it does not stay in
\* Starting.
C11_StartingFallsBackToOffline ==
    (current_state = "starting") ~> ((OfflineEntered /\ IntentWakes) \/ hostUp)

\* C11 witness: the only wake attempt was sent, the host never answered,
\* and the boot-wait task has timed out and completed the Offline entry.
C11_Witness ==
    /\ OfflineEntered
    /\ ~hostUp
    /\ flips = WideFlips
    /\ stats.wake_attempts = 1
    /\ stats.successful_wakes = 0
    /\ stats.state_transitions = 3
    /\ bw = [t \in BootWaitTasks |-> 0]
    /\ conn = [t \in ClientTasks |-> 0]

\* C12: when the monitor's probe reports the host online (a change from
\* what the monitor last saw) while the state is Offline or Waking, the
\* state becomes Proxying.
C12_OnlineInOfflineOrWakingProxies ==
    [][(/\ MonitorPoll
        /\ hostUp
        /\ MonitorSeesChange("online")
        /\ Settled
        /\ current_state \in {"offline", "waking"})
         => current_state' = "proxying"]_vars

\* C13: a Minecraft connection accepted while the state is Proxying is
\* handed to the splice: no handshake read is left pending for it, the
\* proxy writes neither a status response nor a disconnect packet, no magic
\* frame is sent, and state, wake_attempts and the boot-wait tasks are
\* untouched.
C13_ProxyingConnectionIsSpliced ==
    [][(McAccept /\ current_state = "proxying") =>
         /\ ev' = Ev("splice", 0)
         /\ conn' = conn
         /\ bw' = bw
         /\ current_state' = current_state
         /\ stats'.wake_attempts = stats.wake_attempts
         /\ stats'.minecraft_connections = stats.minecraft_connections + 1]_vars

\* C13 witness: a connection has just been spliced while the proxy is in
\* Proxying with the address released and forwarding on.
C13_Witness ==
    /\ ev = Ev("splice", 0)
    /\ ProxyingEntered
    /\ is_running
    /\ stats.minecraft_connections >= 1

\* C14: every change of the shared server health made while the service
\* is running is made by an iteration of the monitor loop that calls the
\* health callback, with the health before the change as its previous
\* value.
C14_EveryHealthChangeIsReported ==
    [][(is_running /\ server_state' # server_state) =>
         /\ MonitorPoll
         /\ MonitorSeesChange(server_state')
         /\ mon.last_state = server_state]_vars

\* C15: transitions are serialised: while a task is suspended inside an
\* entry action (its bind or release has not returned), no step changes the
\* state.
C15_TransitionsAreSerialised ==
    [][(is_running /\ EntryPending) => current_state' = current_state]_vars

\* C16: once shutdown() has completed with the address released, no step
\* binds the address again.
C16_NoBindAfterShutdown ==
    [][(main_pc = "stopped" /\ ~ip_bound) => ~ip_bound']_vars

\* C17: no step lowers any of the five statistics counters.
C17_CountersNeverDecrease ==
    [][/\ stats'.wake_attempts >= stats.wake_attempts
       /\ stats'.successful_wakes >= stats.successful_wakes
       /\ stats'.minecraft_connections >= stats.minecraft_connections
       /\ stats'.satisfactory_connections >= stats.satisfactory_connections
       /\ stats'.state_transitions >= stats.state_transitions]_vars

\* Every one of the five counters has been raised.
C17_Witness ==
    /\ stats.wake_attempts >= 1
    /\ stats.successful_wakes >= 1
    /\ stats.minecraft_connections >= 1
    /\ stats.satisfactory_connections >= 1
    /\ stats.state_transitions >= 3

\* The retry loop at any moment of a call: what has been counted so far.
RetryLoopInv ==
    /\ wol.rounds <= wol.max_retries
    /\ wol.failed <= wol.rounds
    /\ wol.rounds <= wol.failed + 1
    /\ (wol.rounds > wol.failed) =>
         (wol.pc = "done" /\ wol.result = "success" /\ wol.round.success)
    /\ (wol.result = "success") => (wol.rounds = wol.failed + 1)
    /\ (wol.result = "failure") <=>
         (wol.pc = "done" /\ wol.failed = wol.max_retries)
    /\ (wol.pc = "done") <=> (wol.result # "none")
    /\ (wol.pc = "sleep") => (wol.sleeps = wol.rounds /\ wol.rounds < wol.max_retries)
    /\ (wol.pc # "sleep") =>
         (wol.sleeps = IF wol.rounds = 0 THEN 0 ELSE wol.rounds - 1)

\* C18: wake_server_with_retry(max_retries) runs at most max_retries rounds,
\* no round after a successful one, returns success exactly when its last
\* round succeeded and failure exactly when max_retries rounds failed, has
\* slept once between two consecutive rounds and never after the last one,
\* and returns.
C18_RetryLoopBoundedAndTerminates ==
    /\ []RetryLoopInv
    /\ <>(wol.pc = "done")

\* The third of three rounds succeeded after two retry sleeps.
C18_Witness ==
    /\ wol.max_retries = MaxRetriesArg
    /\ wol.result = "success"
    /\ wol.failed = MaxRetriesArg - 1
    /\ wol.sleeps = MaxRetriesArg - 1

\* The ordered set {directed broadcast, target IP, 255.255.255.255} of a
\* sender, the places in it that hold a destination (the first occurrence of
\* an address that is not empty), and the number of destinations before
\* place i.
OrderedSet(w) == <<w.broadcast_ip, w.target_ip, GlobalBroadcast>>
DestinationPlaces(w) ==
    {i \in 1..3 : /\ OrderedSet(w)[i] # ""
                  /\ \A j \in 1..(i - 1) : OrderedSet(w)[j] # OrderedSet(w)[i]}
DestinationsBefore(w, i) == Cardinality({j \in DestinationPlaces(w) : j < i})

\* C19: a fan-out round whose socket is open sends the magic packet to every
\* distinct destination in the order of the set, to port 9 and then port 7,
\* whatever sends fail, and nothing else; a round returns True exactly when
\* one of its sends raised no error.
C19_FanOutRound ==
    (wol.rounds >= 1) =>
      LET r == wol.round
          calls == r.attempted
      IN /\ r.packet = CreateMagicPacket(wol.mac_bytes)
         /\ r.sock_ok =>
              /\ Len(calls) = 2 * Cardinality(DestinationPlaces(wol))
              /\ \A i \in DestinationPlaces(wol) :
                   LET n == 2 * DestinationsBefore(wol, i)
                   IN /\ calls[n + 1] = <<OrderedSet(wol)[i], 9>>
                      /\ calls[n + 2] = <<OrderedSet(wol)[i], 7>>
         /\ ~r.sock_ok => calls = <<>>
         /\ r.success <=> (\E k \in 1..Len(calls) : calls[k] \notin r.errors)

\* A round over three destinations in which five of the six sends raised an
\* error and the last one went out.
C19_Witness ==
    /\ wol.rounds >= 1
    /\ wol.round.sock_ok
    /\ Len(wol.round.attempted) = 6
    /\ wol.round.errors = {wol.round.attempted[k] : k \in 1..5}
    /\ wol.round.success

\* A frame of 102 bytes: six bytes 0xFF, then sixteen chunks of six bytes
\* each equal to the MAC.
IsMagicFrame(frame, mac) ==
    /\ Len(frame) = 102
    /\ \A i \in 1..6 : frame[i] = 255
    /\ \A c \in 1..16 : \A j \in 1..6 : frame[6 * c + j] = mac[j]

ItemStart(i) == IF i = 1 THEN 0 ELSE buffer.written[i - 1].end
ItemBytes(i) == SubSeq(buffer.buf.data, ItemStart(i) + 1, buffer.written[i].end)

\* C21: a VarInt written for n in [0, 2^31 - 1] takes at most 5 bytes, and
\* reading it returns n and leaves pos at the end of those bytes.
C21_VarIntRoundTrip ==
    \A i \in 1..Len(buffer.written) :
      (buffer.written[i].kind = "varint") =>
        /\ Len(ItemBytes(i)) <= 5
        /\ (i <= Len(buffer.got)) =>
             /\ buffer.got[i].err = "none"
             /\ buffer.got[i].value = buffer.written[i].value
             /\ buffer.got[i].pos = buffer.written[i].end

\* 300 and then 2^31 - 1 have been written and read back.
C21_Witness ==
    /\ Len(buffer.got) = 2
    /\ buffer.written[1] = [kind |-> "varint", value |-> 300, end |-> 2]
    /\ buffer.written[2] = [kind |-> "varint", value |-> 2147483647, end |-> 7]
    /\ buffer.got[2] = [value |-> 2147483647, pos |-> 7, err |-> "none"]

\* The number whose little-endian base-128 digits are the low seven bits of
\* the bytes.
RECURSIVE Base128(_)
Base128(bytes) ==
    IF bytes = <<>> THEN 0 ELSE (Head(bytes) % 128) + 128 * Base128(Tail(bytes))

\* C22: the bytes written for a VarInt are its little-endian base-128
\* digits, every byte but the last with the top bit set and the last with
\* it clear; 0 is written as 00, 127 as 7F, 128 as 80 01 and 300 as AC 02.
C22_VarIntWireForm ==
    \A i \in 1..Len(buffer.written) :
      (buffer.written[i].kind = "varint") =>
        LET n == buffer.written[i].value
            bytes == ItemBytes(i)
        IN /\ Len(bytes) >= 1
           /\ \A k \in 1..(Len(bytes) - 1) : bytes[k] >= 128 /\ bytes[k] <= 255
           /\ bytes[Len(bytes)] >= 0 /\ bytes[Len(bytes)] < 128
           /\ Base128(bytes) = n
           /\ (n = 0) => (bytes = <<0>>)
           /\ (n = 127) => (bytes = <<127>>)
           /\ (n = 128) => (bytes = <<128, 1>>)
           /\ (n = 300) => (bytes = <<172, 2>>)

\* 128 and then 300 have been written: the buffer holds 80 01 AC 02.
C22_Witness ==
    /\ Len(buffer.written) = 2
    /\ buffer.written[1].kind = "varint" /\ buffer.written[1].value = 128
    /\ buffer.written[2].kind = "varint" /\ buffer.written[2].value = 300
    /\ buffer.buf.data = <<128, 1, 172, 2>>

\* C23: reading a String written for s returns s and leaves pos at the end
\* of the bytes written, which are the VarInt of the byte length of s and
\* the UTF-8 bytes of s.
C23_StringRoundTrip ==
    \A i \in 1..Len(buffer.written) :
      (buffer.written[i].kind = "string") =>
        LET str == buffer.written[i].value
            bytes == ItemBytes(i)
            prefix == Len(bytes) - Len(Utf8Encode(str))
        IN /\ prefix >= 1
           /\ Base128(SubSeq(bytes, 1, prefix)) = Len(Utf8Encode(str))
           /\ \A k \in 1..(prefix - 1) : bytes[k] >= 128
           /\ bytes[prefix] < 128
           /\ SubSeq(bytes, prefix + 1, Len(bytes)) = Utf8Encode(str)
           /\ (i <= Len(buffer.got)) =>
                /\ buffer.got[i].err = "none"
                /\ buffer.got[i].value = str
                /\ buffer.got[i].pos = buffer.written[i].end

\* The string of four characters of one, two, three and four bytes, and
\* then the string of 130 bytes, have been written and read back.
C23_Witness ==
    /\ Len(buffer.got) = 2
    /\ buffer.written[1].kind = "string"
    /\ buffer.written[1].value = <<65, 233, 8364, 128512>>
    /\ buffer.written[1].end = 11
    /\ buffer.written[2].kind = "string"
    /\ Len(buffer.written[2].value) = 130
    /\ buffer.written[2].end = 11 + 2 + 130
    /\ buffer.got[2].value = buffer.written[2].value

\* The bytes are a ping packet: the length 9, the id 0x01 and a payload of
\* eight bytes.
IsPingPacket(bytes) == Len(bytes) = 10 /\ bytes[1] = 9 /\ bytes[2] = 1

\* C24: when the read after the status response returns a ping packet, the
\* pong written is a packet of id 0x01 with the same eight bytes of payload;
\* when the read times out or the client has closed, no pong is written; in
\* each case the connection is closed and no exception leaves the handler.
C24_PongEchoesPing ==
    (probe.pc = "closed") =>
      /\ probe.closed /\ probe.raised = "none"
      /\ (probe.arrival = "data" /\ IsPingPacket(probe.ping_data)) =>
           /\ Len(probe.pong) = 10
           /\ probe.pong[1] = 9 /\ probe.pong[2] = 1
           /\ \A i \in 3..10 : probe.pong[i] = probe.ping_data[i]
           /\ probe.logged = "none"
      /\ (probe.arrival \in {"eof", "timeout"}) =>
           (probe.pong = <<>> /\ probe.logged = "none")

\* A ping whose payload has its top bit set has been answered.
C24_Witness ==
    /\ probe.pc = "closed"
    /\ probe.response = "status_starting"
    /\ probe.ping_data = <<9, 1, 255, 0, 128, 255, 0, 128, 255, 0>>
    /\ probe.pong = probe.ping_data

\* C25: with an ip command that works, bind() on an interface that holds
\* the address returns True and leaves it there with the flag set, and
\* release() on an interface without the address returns True and leaves it
\* absent with the flag clear; with any ip command, the second of two calls
\* of the same operation in a row returns what the first returned and
\* leaves the flag and the interface as the first left them.
C25_BindReleaseIdempotent ==
    \A i \in 1..Len(ipm.log) :
      LET c == ipm.log[i]
      IN /\ (ipm.works /\ c.op = "bind" /\ c.before) =>
              (c.result /\ c.ip_bound /\ c.assigned)
         /\ (ipm.works /\ c.op = "release" /\ ~c.before) =>
              (c.result /\ ~c.ip_bound /\ ~c.assigned)
         /\ (i > 1 /\ ipm.log[i - 1].op = c.op
               /\ ipm.log[i - 1].assigned = c.before) =>
              /\ c.result = ipm.log[i - 1].result
              /\ c.ip_bound = ipm.log[i - 1].ip_bound
              /\ c.assigned = ipm.log[i - 1].assigned

\* bind() twice and then release() on an interface that did not hold the
\* address: the second bind met the address and the file-exists answer.
C25_Witness ==
    /\ ipm.works
    /\ Len(ipm.log) = 3
    /\ ipm.log[1] = [op |-> "bind", before |-> FALSE, result |-> TRUE,
                     ip_bound |-> TRUE, assigned |-> TRUE]
    /\ ipm.log[2] = [op |-> "bind", before |-> TRUE, result |-> TRUE,
                     ip_bound |-> TRUE, assigned |-> TRUE]
    /\ ipm.log[3].op = "release" /\ ~ipm.assigned /\ ~ipm.ip_bound

\* The step in which a boot-wait task sees its time run out.
ExpiryStep ==
    \E n \in 0..(BootPolls - 1) : BootWaitPoll(n) /\ ~hostUp /\ TimedOut(n + 1)

\* C26: a boot-wait expiry delivered in a state other than STARTING leaves
\* the state alone.
C26_ExpiryOnlyActsInStarting ==
    [][(ExpiryStep /\ current_state # "starting") =>
         current_state' = current_state]_vars

\* Some task has issued the bind command and waits for it.
BindIssued ==
    \/ conn[WakeBind] > 0
    \/ bw[BwBind] > 0
    \/ mon.pc = "cb_bind"
    \/ main_pc = "start_bind"

\* C27: a step that enters WAKING or STARTING while the flag says that the
\* address is not bound (an earlier bind failed) issues the bind again.
C27_EntryRetriesFailedBind ==
    [][(/\ is_running
        /\ ~ip_bound
        /\ current_state' # current_state
        /\ current_state' \in {"waking", "starting"}) => BindIssued']_vars

\* C28: when the per-connection task has left _forward_minecraft_connection,
\* the client connection is closed, the connection to the host is not left
\* open, and no exception has left the task.
C28_ForwardingEndsClosed ==
    fwd.pc = "done" =>
        /\ fwd.client_writer = "closed"
        /\ fwd.server_writer # "open"
        /\ fwd.raised = "none"

\* C29: a datagram of a source that was silent on its port for more than
\* 300 s schedules a traffic callback, as the first datagram of a source does.
C29_SilentSourceIsNewAgain ==
    [][(/\ sat'.stats.packets_received # sat.stats.packets_received
        /\ sat'.last.silence > ConnectionTimeout)
       => Len(sat'.events) = Len(sat.events) + 1]_vars

\* A step in which a datagram is received.
DatagramReceivedStep ==
    sat'.stats.packets_received # sat.stats.packets_received

\* C30: every datagram writes the timestamp of its source on its port, and
\* schedules one traffic callback (for its port and source) when the source
\* was not in the dictionary of the port before it and none when it was.
C30_EventIffNotActive ==
    [][DatagramReceivedStep =>
         LET d == sat'.last
             was_active == d.client_id \in DOMAIN sat.active_connections[d.port]
         IN /\ d.client_id \in DOMAIN sat'.active_connections[d.port]
            /\ sat'.active_connections[d.port][d.client_id] = sat'.clock
            /\ IF was_active
               THEN sat'.events = sat.events
               ELSE sat'.events = Append(sat.events,
                        [port |-> d.port, client_addr |-> d.client_id])]_vars

\* Two datagrams of one source on one port, the second while the source was
\* in the dictionary: one callback was scheduled.
C30_Witness ==
    /\ sat.stats.packets_received = 2
    /\ sat.last.silence >= 0
    /\ Len(sat.events) = 1

\* C31: a datagram is sent on to the host exactly when the ProxyState is
\* PROXYING at the time it is processed, and its traffic callback runs in
\* every state.
C31_RelayIffProxying ==
    [][DatagramStep =>
         /\ (ev'.sent = "relay" <=> current_state = "proxying")
         /\ stats'.satisfactory_connections
              = stats.satisfactory_connections + 1]_vars

\* A frame whose fields are those of a handshake: the declared length is
\* the length of what follows it, the packet id is 0, and the version, the
\* address, the port and the next state are all there and well formed.
WellFormedFrame(f) ==
    /\ f.length = "exact"
    /\ f.id = <<0>>
    /\ f.version \in {<<0>>, <<253, 5>>}
    /\ f.address \in {<<0>>, <<1, 65>>}
    /\ f.port = <<99, 221>>
    /\ f.next # <<>>

\* C32: a connection whose first frame did not arrive in time, is not a
\* well-formed handshake, or asks for a next state other than 1 and 2 gets
\* nothing sent, is closed, and wakes nothing.
C32_BadHandshakeIsDropped ==
    (/\ hs.pc = "done"
     /\ \/ hs.arrival = "timeout"
        \/ /\ hs.arrival = "frame"
           /\ ~(WellFormedFrame(hs.frame) /\ hs.frame.next \in {<<1>>, <<2>>}))
    => (hs.sent = "none" /\ hs.closed /\ ~hs.wake /\ ~hs.is_login)

\* C33: once one direction of a splice has ended (end of stream or error),
\* both forward_data tasks end, both sockets are closed and the
\* per-connection task returns.
C33_FirstEndClosesBoth ==
    (\E d \in Directions : fwd.task[d] = "ended")
    ~> (/\ fwd.pc = "done"
        /\ \A d \in Directions : fwd.task[d] = "ended"
        /\ fwd.client_writer = "closed"
        /\ fwd.server_writer = "closed")

\* A splice that moved data, had an error in one direction, and is over
\* with both sockets closed.
C33_Witness ==
    /\ fwd.pc = "done"
    /\ fwd.logged # {}
    /\ \E d \in Directions : fwd.moved[d] > 0
    /\ fwd.client_writer = "closed"
    /\ fwd.server_writer = "closed"

\* The length of the run of results equal to b at the end of outcomes.
RECURSIVE RunAtEnd(_, _)
RunAtEnd(outcomes, b) ==
    IF outcomes = <<>> \/ outcomes[Len(outcomes)] # b THEN 0
    ELSE 1 + RunAtEnd(SubSeq(outcomes, 1, Len(outcomes) - 1), b)

\* C34: after every probe the health is online exactly when that probe
\* succeeded, and each of the two counters is the length of the current run
\* of its result (so one of them is 0).
C34_HealthFollowsLastProbe ==
    /\ health.outcomes # <<>> =>
         (health.current_state = "online"
            <=> health.outcomes[Len(health.outcomes)])
    /\ health.outcomes # <<>> => health.current_state \in {"online", "offline"}
    /\ health.consecutive_successes = RunAtEnd(health.outcomes, TRUE)
    /\ health.consecutive_failures = RunAtEnd(health.outcomes, FALSE)
    /\ ~(health.consecutive_successes > 0 /\ health.consecutive_failures > 0)

\* Two successes, then failures, then one success: the health went online,
\* offline and online again, each time on a single probe.
C34_Witness ==
    /\ Len(health.outcomes) >= 4
    /\ health.outcomes[1] /\ health.outcomes[2]
    /\ ~health.outcomes[3]
    /\ health.outcomes[Len(health.outcomes)]
    /\ health.current_state = "online"
    /\ health.consecutive_successes = 1
    /\ health.stats.state_changes = 3

\* The place of the first byte with the top bit clear, 0 when there is none.
FirstEnd(bytes) ==
    LET ends == {k \in 1..Len(bytes) : bytes[k] < 128}
    IN IF ends = {} THEN 0 ELSE CHOOSE k \in ends : \A j \in ends : k <= j

\* C35: read_varint raises exactly when the encoding at pos goes on after
\* its fifth byte or is not ended within the buffer, and otherwise returns
\* with pos behind the encoding; write_varint of a negative value raises and
\* leaves the buffer as it was.
C35_VarIntRejects ==
    /\ \A i \in 1..Len(buffer.got) :
         LET g == buffer.got[i]
             first == FirstEnd(SubSeq(g.data, g.start + 1, Len(g.data)))
         IN IF first = 0 \/ first > 5
              THEN g.err = "ValueError"
              ELSE g.err = "none" /\ g.pos = g.start + first
    /\ \A i \in 1..Len(buffer.written) :
         LET w == buffer.written[i]
         IN IF w.value < 0
              THEN w.err = "ValueError" /\ w.after = w.before
              ELSE w.err = "none"

\* An encoding of six bytes, an encoding cut off by the end of the buffer
\* and a negative value have all been refused.
C35_Witness ==
    /\ Len(buffer.got) = 2
    /\ buffer.got[1].data = <<128, 128, 128, 128, 128, 1, 128, 1>>
    /\ buffer.got[1].err = "ValueError"
    /\ buffer.got[2].err = "none"
    /\ Len(buffer.written) = 1
    /\ buffer.written[1].value = -1
    /\ buffer.written[1].err = "ValueError"
    /\ buffer.buf.data = <<128, 128, 128, 128, 128, 1, 128, 1>>

\* A step in which an entry into OFFLINE is completed: the bind command of
\* _enter_offline_state, or of start(), has returned.
OfflineEntryDone ==
    \/ \E ok \in BOOLEAN : MonitorBindDone(ok)
    \/ \E ok \in BOOLEAN : WakeBindDone(ok)
    \/ \E ok \in BOOLEAN : BootWaitBindDone(ok)
    \/ StartBound(TRUE)

\* C36: the step that completes an entry into OFFLINE has run the bind
\* command, leaves forwarding disabled, and sends the gratuitous ARP.
C36_OfflineEntryAnnounces ==
    [][OfflineEntryDone =>
         /\ current_state' = "offline"
         /\ ~forwarding_active'
         /\ ev'.sent = "announce"]_vars

\* C37: when start() fails after its bind succeeded, the address is no
\* longer bound when start() has returned.
C37_FailedStartReleases ==
    [][StartHandlersFail => ~ip_bound']_vars

\* The boot-wait tasks that are inside wait_for_server_online.
RECURSIVE BagSize(_, _)
BagSize(bag, tasks) ==
    IF tasks = {} THEN 0
    ELSE LET t == CHOOSE x \in tasks : TRUE
         IN bag[t] + BagSize(bag, tasks \ {t})
BootWaitsPolling == BagSize(bw, {BwPoll(n) : n \in 0..(BootPolls - 1)})

\* C38: at most one boot-wait task is waiting for the host at any time (so
\* that the task whose wait ends is the one of the current STARTING
\* episode).
C38_OneBootWait == BootWaitsPolling <= 1

\* A boot-wait task probes the host and sees it online.
BootWaitSawOnline == hostUp /\ \E n \in 0..(BootPolls - 1) : BootWaitPoll(n)

\* C39: successful_wakes never exceeds wake_attempts (the boot-wait tasks
\* still waiting will each add at most one), and it goes up only by one, in
\* the step in which a boot-wait task sees the host online.
C39_SuccessesWithinAttempts ==
    /\ [](stats.successful_wakes + BootWaitsPolling <= stats.wake_attempts)
    /\ [][stats'.successful_wakes # stats.successful_wakes =>
            /\ stats'.successful_wakes = stats.successful_wakes + 1
            /\ BootWaitSawOnline
            /\ BootWaitsPolling' = BootWaitsPolling - 1]_vars

\* Two wakes were attempted; the boot-wait of one of them saw the host
\* online and the other one did not.
C39_Witness ==
    /\ stats.wake_attempts = 2
    /\ stats.successful_wakes = 1
    /\ BootWaitsPolling = 0

\* A boot-wait task ends and calls _transition_to_state with the state the
\* proxy is already in: PROXYING after the monitor has made the transition,
\* OFFLINE after a later change has made it.
BootWaitSameState ==
    \E n \in 0..(BootPolls - 1) :
      /\ BootWaitPoll(n)
      /\ \/ hostUp /\ current_state = "proxying"
         \/ ~hostUp /\ TimedOut(n + 1) /\ current_state = "offline"

\* The changes of the ProxyState made in one step: a wake started in the
\* step (wake_attempts counts it) whose first fan-out round succeeds goes
\* from OFFLINE through WAKING to STARTING.
StateChanges ==
    IF current_state' = current_state THEN 0
    ELSE IF /\ stats'.wake_attempts # stats.wake_attempts
            /\ current_state' = "starting" THEN 2
    ELSE 1

\* C40: a transition to the state the proxy is in changes neither the
\* state, nor the transition counter, nor the bound flag, nor the forwarding
\* flag, and runs no entry action (no command is waited for, nothing is
\* announced); and the transition counter goes up by one for every change
\* of the state.
C40_SameStateIsNoop ==
    /\ [][BootWaitSameState =>
            /\ current_state' = current_state
            /\ stats'.state_transitions = stats.state_transitions
            /\ ip_bound' = ip_bound
            /\ forwarding_active' = forwarding_active
            /\ bw'[BwBind] = bw[BwBind] /\ bw'[BwRel] = bw[BwRel]
            /\ ev'.sent = "none"]_vars
    /\ [][StartBound(TRUE) =>
            /\ current_state' = current_state
            /\ stats'.state_transitions = stats.state_transitions
            /\ forwarding_active' = forwarding_active]_vars
    /\ [][stats'.state_transitions
            = stats.state_transitions + StateChanges]_vars

\* The monitor has made the transition to PROXYING and still waits for
\* the release, and the boot-wait task of the one wake has seen the host
\* online since: its transition to PROXYING counted nothing.
C40_Witness ==
    /\ current_state = "proxying"
    /\ mon.pc = "cb_release"
    /\ stats.wake_attempts = 1
    /\ stats.successful_wakes = 1
    /\ stats.state_transitions = 3
    /\ BootWaitsPolling = 0

====
